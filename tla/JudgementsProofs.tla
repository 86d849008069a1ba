--------------------------- MODULE JudgementsProofs ----------------------------
(***************************************************************************)
(* Theorems about how drafts are judged: RequirementVerdicts for any       *)
(* plugins, prompts and drafts, TaskContracts for any texts, tokens and    *)
(* limits, and GroundedAnswer for any pages, engines, budgets and          *)
(* failures; about what is picked of past mistakes, MistakeRecall for any  *)
(* searches, weights, causes, thresholds and limits; and about paired      *)
(* trials, TrialVerdicts for any number of cases. They rest on what        *)
(* Selections picks from a set, and in which order, which is proved from   *)
(* the ranks of its elements, and on inductions over numbers.              *)
(***************************************************************************)
EXTENDS RequirementVerdicts, TaskContracts, GroundedAnswer, MistakeRecall, TrialVerdicts, FiniteSetTheorems, SequenceTheorems, TLAPS

-----------------------------------------------------------------------------
(* Least elements.                                                         *)

\* Every set of naturals has a least element: the intervals below its elements are
\* ordered like them, and the subsets of a finite set are well-founded.
LEMMA LeastNat ==
  ASSUME NEW S \in SUBSET Nat, S # {}
  PROVE  \E m \in S : \A n \in S : m <= n
<1>1. PICK s \in S : s \in Nat
  OBVIOUS
<1> DEFINE Below == 0 .. s
           Intervals == {0 .. n : n \in {m \in S : m <= s}}
           Order == StrictSubsetOrdering(Below)
<1>2. IsWellFoundedOn(Order, SUBSET Below)
  <2>1. 0 \in Int /\ s \in Int
    BY <1>1
  <2>2. IsFiniteSet(Below)
    BY <2>1, FS_Interval
  <2> QED BY <2>2, FS_FiniteSubsetsOfFinite, FS_StrictSubsetOrderingWellFounded
<1>3. Intervals \subseteq SUBSET Below /\ Intervals # {}
  BY <1>1
<1> HIDE DEF Order, Intervals
<1>4. PICK I \in Intervals : \A J \in Intervals : <<J, I>> \notin Order
  BY <1>2, <1>3, WFMin
<1>5. PICK m \in S : m <= s /\ I = 0 .. m
  BY DEF Intervals
<1>6. ASSUME NEW n \in S, ~(m <= n) PROVE FALSE
  <2>1. n <= s /\ 0 .. n \in Intervals
    BY <1>1, <1>5, <1>6 DEF Intervals
  <2>2. 0 .. n \subseteq 0 .. m /\ m \in 0 .. m /\ m \notin 0 .. n
    BY <1>5, <1>6
  <2>3. 0 .. n \in SUBSET Below /\ 0 .. m \in SUBSET Below
    BY <1>1, <1>5, <2>1
  <2>4. <<0 .. n, 0 .. m>> \in Order
    BY <2>2, <2>3 DEF Order, StrictSubsetOrdering
  <2> QED BY <1>4, <1>5, <2>1, <2>4
<1> QED BY <1>6

\* Induction, for a set instead of a predicate.
LEMMA NatBySteps ==
  ASSUME NEW S, 0 \in S, \A n \in Nat : n \in S => n + 1 \in S
  PROVE  Nat \subseteq S
<1>1. SUFFICES ASSUME Nat \ S # {} PROVE FALSE
  OBVIOUS
<1>2. PICK m \in Nat \ S : \A n \in Nat \ S : m <= n
  BY <1>1, LeastNat
<1>3. m # 0 /\ m - 1 \in Nat /\ m - 1 \notin Nat \ S
  BY <1>2
<1>4. m - 1 + 1 \in S
  BY <1>3
<1> QED BY <1>2, <1>4

\* The least element is the one that Min chooses.
LEMMA MinIsLeast ==
  ASSUME NEW S \in SUBSET Nat, S # {}
  PROVE  Min(S) \in S /\ \A n \in S : Min(S) <= n
  BY LeastNat DEF Min

-----------------------------------------------------------------------------
(* Selections by a key.                                                    *)

\* A key: natural numbers that tell the elements of a finite set apart.
IsKey(key) ==
  /\ IsFiniteSet(DOMAIN key)
  /\ \A x \in DOMAIN key : key[x] \in Nat
  /\ \A x, y \in DOMAIN key : key[x] = key[y] => x = y

\* Among finitely many elements one has the greatest key: what is above an element
\* shrinks as its key grows, and the subsets of a finite set are well-founded.
LEMMA GreatestKey ==
  ASSUME NEW key, IsKey(key), NEW S \in SUBSET DOMAIN key, S # {}
  PROVE  \E x \in S : \A y \in S : key[y] <= key[x]
<1> DEFINE Above(x) == {y \in S : ~(key[y] <= key[x])}
           Order == StrictSubsetOrdering(S)
           Tops == {Above(x) : x \in S}
<1>1. \A x \in S : key[x] \in Nat
  BY DEF IsKey
<1>2. IsWellFoundedOn(Order, SUBSET S)
  <2>1. IsFiniteSet(S)
    BY FS_Subset DEF IsKey
  <2> QED BY <2>1, FS_FiniteSubsetsOfFinite, FS_StrictSubsetOrderingWellFounded
<1>3. Tops \subseteq SUBSET S /\ Tops # {}
  OBVIOUS
<1> HIDE DEF Order, Tops
<1>4. PICK T \in Tops : \A U \in Tops : <<U, T>> \notin Order
  BY <1>2, <1>3, WFMin
<1>5. PICK x \in S : T = Above(x)
  BY DEF Tops
<1>6. ASSUME NEW y \in S, ~(key[y] <= key[x]) PROVE FALSE
  <2>1. Above(y) \in Tops
    BY DEF Tops
  <2>2. \A z \in S : key[z] \in Nat /\ (~(key[z] <= key[y]) => ~(key[z] <= key[x]))
    BY <1>1, <1>6
  <2>3. y \in Above(x) /\ y \notin Above(y) /\ Above(y) \subseteq Above(x)
    BY <1>1, <1>6, <2>2
  <2>4. Above(y) \in SUBSET S /\ Above(x) \in SUBSET S
    OBVIOUS
  <2> HIDE DEF Above
  <2>5. <<Above(y), Above(x)>> \in Order
    BY <2>3, <2>4 DEF Order, StrictSubsetOrdering
  <2> QED BY <1>4, <1>5, <2>1, <2>5
<1> QED BY <1>6

\* Every rank up to the number of elements is that of one element.
LEMMA RankIsTaken ==
  ASSUME NEW key, IsKey(key), NEW n \in 1 .. Cardinality(DOMAIN key)
  PROVE  \E x \in DOMAIN key : KeyRank(key, x) = n
<1> DEFINE D == DOMAIN key
           Low(x) == {y \in D : key[y] <= key[x]}
           High == {x \in D : n <= Cardinality(Low(x))}
           Keys == {key[x] : x \in High}
<1>1. /\ IsFiniteSet(D) /\ Cardinality(D) \in Nat
      /\ \A x \in D : key[x] \in Nat
      /\ n \in Nat /\ n >= 1 /\ n <= Cardinality(D)
  BY FS_CardinalityType DEF IsKey
<1>2. \A x \in D : IsFiniteSet(Low(x)) /\ Cardinality(Low(x)) \in Nat
  <2> SUFFICES ASSUME NEW x \in D PROVE IsFiniteSet(Low(x)) /\ Cardinality(Low(x)) \in Nat
    OBVIOUS
  <2>1. Low(x) \subseteq D
    OBVIOUS
  <2> HIDE DEF Low
  <2> QED BY <1>1, <2>1, FS_Subset, FS_CardinalityType
<1>3. High # {}
  <2>1. D # {}
    BY <1>1, FS_EmptySet
  <2>2. PICK x \in D : \A y \in D : key[y] <= key[x]
    BY <2>1, GreatestKey
  <2>3. Low(x) = D
    BY <2>2
  <2>4. n <= Cardinality(Low(x))
    BY <1>1, <2>3
  <2> QED BY <2>4
<1>4. PICK x \in High : \A y \in High : key[x] <= key[y]
  <2>1. Keys \in SUBSET Nat /\ Keys # {}
    BY <1>1, <1>3
  <2>2. PICK m \in Keys : \A k \in Keys : m <= k
    BY <2>1, LeastNat
  <2> QED BY <2>2
<1>5. Cardinality(Low(x)) = n
  <2> SUFFICES ASSUME Cardinality(Low(x)) # n PROVE FALSE
    OBVIOUS
  <2> DEFINE Less == Low(x) \ {x}
  <2>1. x \in Low(x) /\ x \in D /\ n <= Cardinality(Low(x))
    BY <1>1
  <2>2. Cardinality(Less) = Cardinality(Low(x)) - 1 /\ IsFiniteSet(Less)
    <3> HIDE DEF Low
    <3> QED BY <1>2, <2>1, FS_RemoveElement
  <2>3. n <= Cardinality(Less) /\ Less # {}
    <3>1. n <= Cardinality(Low(x)) - 1 /\ Cardinality(Low(x)) - 1 # 0
      <4> HIDE DEF Low
      <4> QED BY <1>1, <1>2, <2>1
    <3> HIDE DEF Less
    <3>2. Cardinality(Less) # 0
      BY <2>2, <3>1
    <3> QED BY <2>2, <3>1, <3>2, FS_EmptySet
  <2>4. Less \in SUBSET D
    OBVIOUS
  <2>5. PICK y \in Less : \A z \in Less : key[z] <= key[y]
    <3> HIDE DEF Less
    <3> QED BY <2>3, <2>4, GreatestKey
  <2>6. y \in D /\ key[y] <= key[x] /\ key[y] # key[x]
    BY <2>1 DEF IsKey
  <2>7. Low(y) = Less
    <3>1. ASSUME NEW z \in Less PROVE z \in Low(y)
      BY <1>1, <2>4, <2>5
    <3>2. ASSUME NEW z \in Low(y) PROVE z \in Less
      BY <1>1, <2>1, <2>6
    <3> QED BY <3>1, <3>2
  <2>8. y \in High
    BY <2>3, <2>6, <2>7
  <2> QED BY <1>1, <1>4, <2>1, <2>6, <2>8
<1> QED BY <1>5 DEF KeyRank

\* Ranks tell the elements apart, and are at most as many.
LEMMA RankIsKey ==
  ASSUME NEW key, IsKey(key), NEW x \in DOMAIN key
  PROVE  /\ KeyRank(key, x) \in 1 .. Cardinality(DOMAIN key)
         /\ \A y \in DOMAIN key : KeyRank(key, x) = KeyRank(key, y) => x = y
<1> DEFINE D == DOMAIN key
           Low(z) == {y \in D : key[y] <= key[z]}
<1>1. /\ IsFiniteSet(D) /\ Cardinality(D) \in Nat
      /\ \A z \in D : key[z] \in Nat
  BY FS_CardinalityType DEF IsKey
<1>2. ASSUME NEW z \in D
      PROVE  /\ IsFiniteSet(Low(z)) /\ Cardinality(Low(z)) \in Nat
             /\ Cardinality(Low(z)) <= Cardinality(D) /\ Cardinality(Low(z)) # 0
  <2>1. Low(z) \subseteq D /\ Low(z) # {}
    BY <1>1
  <2> HIDE DEF Low
  <2> QED BY <1>1, <2>1, FS_Subset, FS_CardinalityType, FS_EmptySet
<1>3. ASSUME NEW y \in D, NEW z \in D, key[y] < key[z] PROVE Cardinality(Low(y)) < Cardinality(Low(z))
  <2>1. Low(y) \subseteq Low(z) /\ z \in Low(z) /\ z \notin Low(y)
    BY <1>1, <1>3
  <2> HIDE DEF Low
  <2>2. Cardinality(Low(y)) <= Cardinality(Low(z)) /\ Cardinality(Low(y)) # Cardinality(Low(z))
    BY <1>2, <2>1, FS_Subset
  <2> QED BY <1>2, <2>2
<1>4. ASSUME NEW y \in D, KeyRank(key, x) = KeyRank(key, y) PROVE x = y
  <2>1. Cardinality(Low(x)) = Cardinality(Low(y)) /\ Cardinality(Low(x)) \in Nat
    BY <1>2, <1>4 DEF KeyRank
  <2>2. ~(key[x] < key[y]) /\ ~(key[y] < key[x])
    <3> HIDE DEF Low
    <3> QED BY <1>3, <2>1
  <2> QED BY <1>1, <2>2 DEF IsKey
<1>5. KeyRank(key, x) = Cardinality(Low(x))
  BY DEF KeyRank
<1>6. KeyRank(key, x) \in 1 .. Cardinality(D)
  <2> HIDE DEF Low
  <2> QED BY <1>1, <1>2, <1>5
<1> QED BY <1>4, <1>6

\* What a selection is: elements, each at most once, up to the limit; all of them if
\* the limit allows.
Selects(sel, key, limit) ==
  /\ Len(sel) \in Nat /\ DOMAIN sel = 1 .. Len(sel) /\ Len(sel) <= limit
  /\ \A n \in DOMAIN sel : sel[n] \in DOMAIN key
  /\ sel \in Seq(DOMAIN key)
  /\ Len(sel) <= Cardinality(DOMAIN key)
  /\ Cardinality(DOMAIN key) <= limit => \A x \in DOMAIN key : \E n \in DOMAIN sel : sel[n] = x
  /\ limit > 0 /\ DOMAIN key # {} => Len(sel) > 0

LEMMA ByKeyFacts ==
  ASSUME NEW key, IsKey(key), NEW limit \in Nat
  PROVE  Selects(ByKey(key, limit), key, limit)
<1> PICK sel : sel = ByKey(key, limit)
  OBVIOUS
<1> DEFINE c == Cardinality(DOMAIN key)
           long == Min({c, limit})
<1>1. c \in Nat /\ (DOMAIN key # {} => c # 0)
  BY FS_CardinalityType, FS_EmptySet DEF IsKey
<1>2. long \in {c, limit} /\ long <= c /\ long <= limit
  <2>1. {c, limit} \in SUBSET Nat /\ {c, limit} # {}
    BY <1>1
  <2> HIDE DEF c
  <2> QED BY <2>1, MinIsLeast
<1>3. sel = [n \in 1 .. long |-> CHOOSE x \in DOMAIN key : KeyRank(key, x) = n]
  BY DEF ByKey
<1> HIDE DEF long
<1>4. long \in Nat
  BY <1>1, <1>2
<1>5. ASSUME NEW n \in 1 .. long PROVE sel[n] \in DOMAIN key /\ KeyRank(key, sel[n]) = n
  <2>1. n \in 1 .. c
    BY <1>1, <1>2, <1>4
  <2>2. \E x \in DOMAIN key : KeyRank(key, x) = n
    BY <2>1, RankIsTaken
  <2>3. sel[n] = CHOOSE x \in DOMAIN key : KeyRank(key, x) = n
    BY <1>3
  <2> QED BY <2>2, <2>3
<1>6. DOMAIN sel = 1 .. long /\ sel = [n \in 1 .. long |-> sel[n]]
  BY <1>3
<1>7. sel \in Seq(DOMAIN key) /\ Len(sel) = long
  <2>1. sel \in [1 .. long -> DOMAIN key]
    BY <1>5, <1>6
  <2> QED BY <1>4, <2>1
<1>8. ASSUME c <= limit, NEW x \in DOMAIN key PROVE \E n \in DOMAIN sel : sel[n] = x
  <2>1. long = c
    BY <1>1, <1>2, <1>8
  <2>2. KeyRank(key, x) \in 1 .. long
    BY <2>1, RankIsKey
  <2>3. sel[KeyRank(key, x)] \in DOMAIN key /\ KeyRank(key, sel[KeyRank(key, x)]) = KeyRank(key, x)
    BY <1>5, <2>2
  <2>4. sel[KeyRank(key, x)] = x
    BY <2>3, RankIsKey
  <2> QED BY <1>6, <2>2, <2>4
<1>9. limit > 0 /\ DOMAIN key # {} => long > 0
  BY <1>1, <1>2
<1> QED BY <1>1, <1>2, <1>4, <1>5, <1>6, <1>7, <1>8, <1>9 DEF Selects

\* A greater key has a greater rank.
LEMMA RankGrows ==
  ASSUME NEW key, IsKey(key), NEW x \in DOMAIN key, NEW y \in DOMAIN key, key[x] < key[y]
  PROVE  KeyRank(key, x) < KeyRank(key, y)
<1> DEFINE D == DOMAIN key
           Low(z) == {w \in D : key[w] <= key[z]}
<1>1. IsFiniteSet(D) /\ \A z \in D : key[z] \in Nat
  BY DEF IsKey
<1>2. Low(x) \subseteq Low(y) /\ y \in Low(y) /\ y \notin Low(x) /\ Low(y) \subseteq D
  BY <1>1
<1>3. KeyRank(key, x) = Cardinality(Low(x)) /\ KeyRank(key, y) = Cardinality(Low(y))
  BY DEF KeyRank
<1> HIDE DEF Low
<1>4. IsFiniteSet(Low(y)) /\ IsFiniteSet(Low(x))
  BY <1>1, <1>2, FS_Subset
<1>5. Cardinality(Low(x)) <= Cardinality(Low(y)) /\ Cardinality(Low(x)) # Cardinality(Low(y))
  BY <1>2, <1>4, FS_Subset
<1>6. Cardinality(Low(x)) \in Nat /\ Cardinality(Low(y)) \in Nat
  BY <1>4, FS_CardinalityType
<1> QED BY <1>3, <1>5, <1>6

\* A selection is in the order of the key, and nothing below what it holds is left out.
InOrder(sel, key) ==
  /\ \A m, n \in DOMAIN sel : m < n => key[sel[m]] < key[sel[n]]
  /\ \A n \in DOMAIN sel, x \in DOMAIN key : key[x] < key[sel[n]] => \E m \in DOMAIN sel : m < n /\ sel[m] = x

LEMMA ByKeyOrder ==
  ASSUME NEW key, IsKey(key), NEW limit \in Nat
  PROVE  InOrder(ByKey(key, limit), key)
<1> PICK sel : sel = ByKey(key, limit)
  OBVIOUS
<1> DEFINE c == Cardinality(DOMAIN key)
<1>1. PICK long \in Nat : long = Min({c, limit}) /\ long <= c
  <2>1. c \in Nat
    BY FS_CardinalityType DEF IsKey
  <2>2. {c, limit} \in SUBSET Nat /\ {c, limit} # {}
    BY <2>1
  <2> HIDE DEF c
  <2> QED BY <2>1, <2>2, MinIsLeast
<1>2. DOMAIN sel = 1 .. long
  BY <1>1 DEF ByKey
<1>3. ASSUME NEW n \in 1 .. long PROVE sel[n] \in DOMAIN key /\ KeyRank(key, sel[n]) = n
  <2>1. n \in 1 .. c
    <3>1. c \in Nat
      BY FS_CardinalityType DEF IsKey
    <3> QED BY <1>1, <3>1
  <2>2. \E x \in DOMAIN key : KeyRank(key, x) = n
    BY <2>1, RankIsTaken
  <2>3. sel[n] = CHOOSE x \in DOMAIN key : KeyRank(key, x) = n
    BY <1>1 DEF ByKey
  <2> QED BY <2>2, <2>3
<1>4. \A x \in DOMAIN key : key[x] \in Nat
  BY DEF IsKey
<1>5. ASSUME NEW m \in 1 .. long, NEW n \in 1 .. long, m < n PROVE key[sel[m]] < key[sel[n]]
  <2>1. CASE key[sel[m]] = key[sel[n]]
    <3>1. sel[m] = sel[n]
      BY <1>3, <2>1 DEF IsKey
    <3> QED BY <1>3, <1>5, <3>1
  <2>2. CASE key[sel[n]] < key[sel[m]]
    <3>1. KeyRank(key, sel[n]) < KeyRank(key, sel[m])
      BY <1>3, <2>2, RankGrows
    <3> QED BY <1>3, <1>5, <3>1
  <2> QED BY <1>3, <1>4, <2>1, <2>2
<1>6. ASSUME NEW n \in 1 .. long, NEW x \in DOMAIN key, key[x] < key[sel[n]]
      PROVE  \E m \in 1 .. long : m < n /\ sel[m] = x
  <2>1. KeyRank(key, x) < n
    BY <1>3, <1>6, RankGrows
  <2>2. KeyRank(key, x) \in 1 .. c
    BY RankIsKey
  <2>3. PICK m \in 1 .. long : m = KeyRank(key, x) /\ m < n
    BY <2>1, <2>2
  <2>4. sel[m] = x
    BY <1>3, <2>3, RankIsKey
  <2> QED BY <2>3, <2>4
<1>7. InOrder(sel, key)
  BY <1>2, <1>5, <1>6 DEF InOrder
<1> QED BY <1>7

-----------------------------------------------------------------------------
(* RequirementVerdicts.                                                    *)

BuiltinNames == {Builtins[i].name : i \in DOMAIN Builtins}

\* Once loaded, the built-in verifiers stay under their names.
VerdictShape ==
  /\ VerdictTypeOK
  /\ builtins_loaded =>
       BuiltinNames \subseteq DOMAIN verifiers /\ \A n \in BuiltinNames : verifiers[n] = "builtin"

LEMMA BuiltinsAre ==
  /\ DOMAIN Builtins = 1 .. 7
  /\ Builtins[1].name = "constraint_verifier" /\ Builtins[3].name = "test_command_verifier"
  /\ Builtins[4].name = "git_diff_verifier"
  /\ {"constraint_verifier", "test_command_verifier", "git_diff_verifier"} \subseteq BuiltinNames
<1>1. DOMAIN Builtins = 1 .. 7
  BY DEF Builtins
<1>2. /\ Builtins[1].name = "constraint_verifier" /\ Builtins[3].name = "test_command_verifier"
      /\ Builtins[4].name = "git_diff_verifier"
  BY DEF Builtins
<1>3. 1 \in DOMAIN Builtins /\ 3 \in DOMAIN Builtins /\ 4 \in DOMAIN Builtins
  BY <1>1
<1> QED BY <1>1, <1>2, <1>3 DEF BuiltinNames

\* What a registration leaves.
AddsVerifiers(new, r, classes, those, names, origin) ==
  /\ DOMAIN new.verifiers = DOMAIN r.verifiers \cup names
  /\ \A n \in names : new.verifiers[n] = origin
  /\ \A n \in DOMAIN r.verifiers \ names : new.verifiers[n] = r.verifiers[n]
  /\ DOMAIN r.kinds \subseteq DOMAIN new.kinds
  /\ \A i \in those : ToSet(classes[i].kinds) \subseteq DOMAIN new.kinds
  /\ \A k \in DOMAIN new.kinds :
       new.kinds[k] \in names \/ (k \in DOMAIN r.kinds /\ new.kinds[k] = r.kinds[k])

LEMMA RegisterFacts ==
  ASSUME NEW r, NEW classes, NEW those \in SUBSET DOMAIN classes, NEW origin, DOMAIN classes \subseteq Nat
  PROVE  AddsVerifiers(RegisterAll(r, classes, those, origin), r, classes, those, {classes[i].name : i \in those}, origin)
<1> DEFINE new == RegisterAll(r, classes, those, origin)
           names == {classes[i].name : i \in those}
           having(k) == {i \in those : k \in ToSet(classes[i].kinds)}
           all == UNION {ToSet(classes[i].kinds) : i \in those}
           free == all \ DOMAIN r.kinds
           vs == [n \in DOMAIN r.verifiers \cup names |-> IF n \in names THEN origin ELSE r.verifiers[n]]
           ks == [k \in DOMAIN r.kinds \cup free |-> IF k \in free THEN classes[Min(having(k))].name ELSE r.kinds[k]]
<1>1. new.verifiers = vs /\ new.kinds = ks
  <2>1. new = [verifiers |-> vs, kinds |-> ks]
    BY DEF RegisterAll, Registry
  <2> HIDE DEF new, vs, ks
  <2> QED BY <2>1
<1>2. \A k \in free : classes[Min(having(k))].name \in names
  <2>1. SUFFICES ASSUME NEW k \in free PROVE classes[Min(having(k))].name \in names
    OBVIOUS
  <2>2. having(k) \in SUBSET Nat /\ having(k) # {}
    OBVIOUS
  <2> HIDE DEF having
  <2>3. Min(having(k)) \in having(k)
    BY <2>2, MinIsLeast
  <2> QED BY <2>3 DEF having
<1>3. \A i \in those : ToSet(classes[i].kinds) \subseteq all
  OBVIOUS
<1> HIDE DEF new, names, having, all
<1>4. \A i \in those : ToSet(classes[i].kinds) \subseteq DOMAIN new.kinds
  BY <1>1, <1>3
<1>5. \A k \in DOMAIN new.kinds : new.kinds[k] \in names \/ (k \in DOMAIN r.kinds /\ new.kinds[k] = r.kinds[k])
  BY <1>1, <1>2
<1>6. /\ DOMAIN new.verifiers = DOMAIN r.verifiers \cup names
      /\ \A n \in names : new.verifiers[n] = origin
      /\ \A n \in DOMAIN r.verifiers \ names : new.verifiers[n] = r.verifiers[n]
      /\ DOMAIN r.kinds \subseteq DOMAIN new.kinds
  BY <1>1
<1>7. AddsVerifiers(new, r, classes, those, names, origin)
  BY <1>4, <1>5, <1>6 DEF AddsVerifiers
<1> QED BY <1>7 DEF new, names

LEMMA VerdictInitShape == VerdictInit => VerdictShape
<1> SUFFICES ASSUME VerdictInit PROVE VerdictShape
  OBVIOUS
<1>1. DOMAIN verifiers = {} /\ DOMAIN kind_mapping = {} /\ builtins_loaded = FALSE /\ card.what = "none"
  BY DEF VerdictInit, NoCard
<1> QED BY <1>1 DEF VerdictShape, VerdictTypeOK

\* The registry with the built-in verifiers in it.
LEMMA LoadedShape ==
  ASSUME VerdictShape, EnsureBuiltins
  PROVE  /\ builtins_loaded' = TRUE
         /\ \A n \in DOMAIN verifiers' : verifiers'[n] \in {"builtin", "plugin"}
         /\ \A k \in DOMAIN kind_mapping' : kind_mapping'[k] \in DOMAIN verifiers'
         /\ RequirementKinds \subseteq DOMAIN kind_mapping'
         /\ BuiltinNames \subseteq DOMAIN verifiers' /\ \A n \in BuiltinNames : verifiers'[n] = "builtin"
<1>1. CASE builtins_loaded
  <2>1. verifiers' = verifiers /\ kind_mapping' = kind_mapping /\ builtins_loaded' = TRUE
    BY <1>1 DEF EnsureBuiltins, Registry
  <2> QED BY <1>1, <2>1 DEF VerdictShape, VerdictTypeOK
<1>2. CASE ~builtins_loaded
  <2> PICK r : r = Registry(verifiers, kind_mapping)
    OBVIOUS
  <2> PICK new : new = LoadBuiltins(r)
    OBVIOUS
  <2>1. verifiers' = new.verifiers /\ kind_mapping' = new.kinds /\ builtins_loaded' = TRUE
    BY <1>2 DEF EnsureBuiltins
  <2>2. r.verifiers = verifiers /\ r.kinds = kind_mapping
    BY DEF Registry
  <2>3. DOMAIN Builtins \subseteq Nat /\ DOMAIN Builtins \in SUBSET DOMAIN Builtins
    BY BuiltinsAre
  <2>4. AddsVerifiers(new, r, Builtins, DOMAIN Builtins, BuiltinNames, "builtin")
    BY <2>3, RegisterFacts DEF LoadBuiltins, BuiltinNames
  <2>5. RequirementKinds \subseteq DOMAIN new.kinds
    BY <2>4 DEF RequirementKinds, AddsVerifiers
  <2> QED BY <2>1, <2>2, <2>4, <2>5 DEF AddsVerifiers, VerdictShape, VerdictTypeOK
<1> QED BY <1>1, <1>2

\* A plugin takes no name that is taken.
LEMMA PluginShape ==
  ASSUME VerdictShape, NEW file \in PluginFiles, LoadPlugin(file)
  PROVE  VerdictShape'
<1> PICK r : r = Registry(verifiers, kind_mapping)
  OBVIOUS
<1> PICK those : those = Registrable(r, file)
  OBVIOUS
<1> PICK names : names = {file[i].name : i \in those}
  OBVIOUS
<1> PICK new : new = RegisterAll(r, file, those, "plugin")
  OBVIOUS
<1>1. verifiers' = new.verifiers /\ kind_mapping' = new.kinds /\ UNCHANGED <<builtins_loaded, card>>
  BY DEF LoadPlugin, RegisterPlugins
<1>2. r.verifiers = verifiers /\ r.kinds = kind_mapping
  BY DEF Registry
<1>3. those \in SUBSET DOMAIN file /\ DOMAIN file \subseteq Nat
  BY ListsAssumption DEF Registrable
<1>4. names \cap DOMAIN verifiers = {}
  BY <1>2 DEF Registrable
<1>5. AddsVerifiers(new, r, file, those, names, "plugin")
  BY <1>3, RegisterFacts
<1>6. \A n \in DOMAIN verifiers : n \in DOMAIN verifiers' /\ verifiers'[n] = verifiers[n]
  BY <1>1, <1>2, <1>4, <1>5 DEF AddsVerifiers
<1> QED BY <1>1, <1>2, <1>5, <1>6 DEF AddsVerifiers, VerdictShape, VerdictTypeOK

-----------------------------------------------------------------------------
(* The verdicts.                                                           *)

LEMMA CountFacts ==
  ASSUME NEW S, NEW reqs \in Seq(S), NEW v, DOMAIN v = DOMAIN reqs, NEW status
  PROVE  /\ Count(v, status) \in Nat /\ Count(v, status) <= Len(reqs)
         /\ Count(v, status) = 0 => \A i \in DOMAIN reqs : v[i] # status
         /\ Count(v, status) = Len(reqs) => \A i \in DOMAIN reqs : v[i] = status
<1> DEFINE P == {i \in DOMAIN v : v[i] = status}
<1>1. Len(reqs) \in Nat /\ DOMAIN reqs = 1 .. Len(reqs)
  OBVIOUS
<1>2. IsFiniteSet(1 .. Len(reqs)) /\ Cardinality(1 .. Len(reqs)) = Len(reqs)
  <2>1. 1 \in Int /\ Len(reqs) \in Int
    BY <1>1
  <2>2. \A n \in Nat : IF 1 > n THEN n = 0 ELSE n - 1 + 1 = n
    OBVIOUS
  <2>3. Cardinality(1 .. Len(reqs)) = IF 1 > Len(reqs) THEN 0 ELSE Len(reqs) - 1 + 1
    BY <2>1, FS_Interval
  <2> QED BY <2>1, <2>2, <2>3, <1>1, FS_Interval
<1>3. P \subseteq 1 .. Len(reqs)
  BY <1>1
<1>4. IsFiniteSet(P) /\ Cardinality(P) <= Cardinality(1 .. Len(reqs))
      /\ (Cardinality(P) = Cardinality(1 .. Len(reqs)) => P = 1 .. Len(reqs))
  BY <1>2, <1>3, FS_Subset
<1>5. Cardinality(P) \in Nat /\ (Cardinality(P) = 0 => P = {})
  BY <1>4, FS_CardinalityType, FS_EmptySet
<1>6. Count(v, status) = Cardinality(P)
  BY DEF Count
<1> QED BY <1>1, <1>2, <1>4, <1>5, <1>6

\* Where the built-in verifiers have their names, a draft that no verdict fails
\* complies.
LEMMA NothingFails ==
  ASSUME NEW vs, \A n \in BuiltinNames : vs[n] = "builtin", NEW reqs \in RequirementLists, NEW d \in Candidates,
         NEW v \in Verdicts(vs, reqs, d), \A i \in DOMAIN reqs : v[i] # "FAIL"
  PROVE  Complies(d, reqs)
<1> SUFFICES ASSUME NEW i \in DOMAIN reqs
             PROVE  CASE reqs[i].kind = "required_content" -> reqs[i].value \in d.terms
                      [] reqs[i].kind = "forbidden_content" -> reqs[i].value \notin d.terms
                      [] reqs[i].kind = "allowed_files" -> d.diff => ~d.strays
                      [] OTHER -> reqs[i].value = "pytest"
  BY Zenon DEF Complies
<1> DEFINE req == reqs[i]
<1>1. req \in CompiledRequirements
  BY ListsAssumption
<1>2. v[i] \in VerifyRequirement(vs, req, d) /\ v[i] # "FAIL"
  BY DEF Verdicts
<1> HIDE DEF req
<1>3. /\ vs["constraint_verifier"] = "builtin" /\ vs["test_command_verifier"] = "builtin"
      /\ vs["git_diff_verifier"] = "builtin"
  BY BuiltinsAre
<1>4. CASE req.kind \in {"required_content", "forbidden_content"}
  <2>1. req.verifier = "constraint_verifier"
    BY <1>1, <1>4 DEF CompiledRequirements
  <2>2. v[i] \in ConstraintVerifier(req, d)
    BY <1>2, <1>3, <2>1 DEF VerifyRequirement
  <2>3. IF req.kind = "required_content" THEN req.value \in d.terms ELSE req.value \notin d.terms
    BY <1>2, <2>2 DEF ConstraintVerifier, Outcome
  <2> QED BY <1>4, <2>3 DEF req
<1>5. CASE req.kind = "allowed_files"
  <2>1. req.verifier = "git_diff_verifier"
    BY <1>1, <1>5 DEF CompiledRequirements
  <2>2. v[i] \in GitDiffScopeVerifier(d)
    BY <1>2, <1>3, <2>1 DEF VerifyRequirement
  <2>3. d.diff => ~d.strays
    BY <1>2, <2>2 DEF GitDiffScopeVerifier, Outcome
  <2> QED BY <1>5, <2>3 DEF req
<1>6. CASE req.kind = "test_command"
  <2>1. req.verifier = "test_command_verifier" /\ req.value \in {"pytest", "run pytest", "run tests", "npm test"}
    BY <1>1, <1>6 DEF CompiledRequirements
  <2>2. v[i] \in TestCommandVerifier(req)
    BY <1>2, <1>3, <2>1 DEF VerifyRequirement
  <2>3. req.value = "pytest"
    BY <1>2, <2>1, <2>2 DEF TestCommandVerifier, Executable, AllowlistedExecutables
  <2> QED BY <1>6, <2>3 DEF req
<1>7. req.kind \in {"required_content", "forbidden_content", "allowed_files", "test_command"}
  BY <1>1 DEF CompiledRequirements
<1> QED BY <1>4, <1>5, <1>6, <1>7

\* A list of verdicts on a candidate: as many as requirements; those that count no
\* failure are for a draft that complies.
LEMMA VerdictFacts ==
  ASSUME NEW vs, \A n \in BuiltinNames : vs[n] = "builtin", NEW reqs \in RequirementLists, NEW d \in Candidates,
         NEW v \in Verdicts(vs, reqs, d)
  PROVE  /\ Count(v, "PASS") \in Nat /\ Count(v, "FAIL") \in Nat /\ Len(reqs) \in Nat
         /\ Count(v, "PASS") <= Len(reqs)
         /\ Count(v, "PASS") = Len(reqs) => Count(v, "FAIL") = 0
         /\ Count(v, "FAIL") = 0 => Complies(d, reqs)
<1>1. reqs \in Seq(CompiledRequirements) /\ DOMAIN v = DOMAIN reqs
  BY ListsAssumption DEF Verdicts
<1>2. /\ Count(v, "PASS") \in Nat /\ Count(v, "FAIL") \in Nat
      /\ Count(v, "PASS") <= Len(reqs)
      /\ Count(v, "PASS") = Len(reqs) => \A i \in DOMAIN reqs : v[i] = "PASS"
      /\ Count(v, "FAIL") = 0 => \A i \in DOMAIN reqs : v[i] # "FAIL"
  BY <1>1, CountFacts
<1>3. Count(v, "PASS") = Len(reqs) => Count(v, "FAIL") = 0
  <2> SUFFICES ASSUME Count(v, "PASS") = Len(reqs) PROVE Count(v, "FAIL") = 0
    OBVIOUS
  <2>1. {i \in DOMAIN v : v[i] = "FAIL"} = {}
    BY <1>1, <1>2
  <2> QED BY <2>1, FS_EmptySet DEF Count
<1>4. Count(v, "FAIL") = 0 => Complies(d, reqs)
  BY <1>2, NothingFails
<1> QED BY <1>1, <1>2, <1>3, <1>4

LEMMA ReceiptComplies ==
  ASSUME VerdictShape, NEW reqs \in RequirementLists, NEW d \in Candidates, Receipt(reqs, d) \/ Simulate(reqs, d)
  PROVE  AcceptedDraftsComply'
<1>1. \A n \in BuiltinNames : verifiers'[n] = "builtin"
  BY LoadedShape DEF Receipt, Simulate
<1>2. PICK v \in Verdicts(verifiers', reqs, d) :
         \/ card' = [what |-> "receipt", reqs |-> reqs, draft |-> d,
                     accepted |-> Count(v, "FAIL") = 0 /\ Count(v, "PASS") > 0]
         \/ card' = [what |-> "simulation", reqs |-> reqs, draft |-> d,
                     accepted |-> d.parses /\ d.guarded /\ Count(v, "FAIL") = 0]
  BY Zenon DEF Receipt, Simulate
<1>3. Count(v, "FAIL") = 0 => Complies(d, reqs)
  BY <1>1, VerdictFacts
<1>4. card'.draft = d /\ card'.reqs = reqs /\ card'.what \in {"receipt", "simulation"}
  BY <1>2
<1> PICK received : received = (Count(v, "FAIL") = 0 /\ Count(v, "PASS") > 0)
  OBVIOUS
<1> PICK safe : safe = (d.parses /\ d.guarded /\ Count(v, "FAIL") = 0)
  OBVIOUS
<1>5. \/ card' = [what |-> "receipt", reqs |-> reqs, draft |-> d, accepted |-> received]
      \/ card' = [what |-> "simulation", reqs |-> reqs, draft |-> d, accepted |-> safe]
  BY <1>2, Zenon
<1>6. (card'.what = "receipt" /\ card'.accepted = received) \/ (card'.what = "simulation" /\ card'.accepted = safe)
  BY <1>5
<1>7. received => Count(v, "FAIL") = 0
  BY Zenon
<1>8. safe => d.parses /\ d.guarded /\ Count(v, "FAIL") = 0
  BY Zenon
<1>9. card'.accepted => Count(v, "FAIL") = 0
  BY <1>6, <1>7, <1>8, Zenon
<1>10. card'.what = "simulation" /\ card'.accepted => d.parses /\ d.guarded
  <2>1. "simulation" # "receipt"
    OBVIOUS
  <2> QED BY <1>6, <1>8, <2>1, Zenon
<1> QED BY <1>3, <1>4, <1>9, <1>10, Zenon DEF AcceptedDraftsComply

LEMMA ChampionComplies ==
  ASSUME VerdictShape, NEW reqs \in RequirementLists, NEW drafts \in CandidateLists, Prune(reqs, drafts)
  PROVE  AcceptedDraftsComply'
<1>1. \A n \in BuiltinNames : verifiers'[n] = "builtin"
  BY LoadedShape DEF Prune
<1>2. drafts \in Seq(Candidates) /\ DOMAIN drafts \subseteq Nat
  BY ListsAssumption
<1>3. PICK vs :
         /\ \A i \in DOMAIN drafts : vs[i] \in Verdicts(verifiers', reqs, drafts[i])
         /\ LET branches == [i \in DOMAIN drafts |-> Branch(drafts[i], vs[i])]
            IN card' = [what |-> "ranking", reqs |-> reqs, branches |-> branches, champion |-> Champion(branches)]
  BY Zenon DEF Prune
<1> PICK branches : branches = [i \in DOMAIN drafts |-> Branch(drafts[i], vs[i])]
  OBVIOUS
<1>4. card' = [what |-> "ranking", reqs |-> reqs, branches |-> branches, champion |-> Champion(branches)]
  BY <1>3, Zenon
<1>5. card'.what = "ranking" /\ card'.reqs = reqs /\ card'.branches = branches /\ card'.champion = Champion(branches)
  BY <1>4
<1>6. ASSUME NEW i \in DOMAIN drafts
      PROVE  /\ branches[i].draft = drafts[i]
             /\ branches[i].passed \in Nat /\ branches[i].failed \in Nat /\ Len(reqs) \in Nat
             /\ branches[i].passed <= Len(reqs)
             /\ branches[i].passed = Len(reqs) => branches[i].failed = 0 /\ Complies(drafts[i], reqs)
  <2>1. /\ branches[i].draft = drafts[i] /\ branches[i].passed = Count(vs[i], "PASS")
        /\ branches[i].failed = Count(vs[i], "FAIL")
    BY DEF Branch
  <2>2. drafts[i] \in Candidates /\ vs[i] \in Verdicts(verifiers', reqs, drafts[i])
    BY <1>2, <1>3
  <2>3. /\ Count(vs[i], "PASS") \in Nat /\ Count(vs[i], "FAIL") \in Nat /\ Len(reqs) \in Nat
        /\ Count(vs[i], "PASS") <= Len(reqs)
        /\ Count(vs[i], "PASS") = Len(reqs) => Count(vs[i], "FAIL") = 0
        /\ Count(vs[i], "FAIL") = 0 => Complies(drafts[i], reqs)
    BY <1>1, <2>2, VerdictFacts
  <2> QED BY <2>1, <2>3
<1>7. ASSUME NEW i \in DOMAIN drafts, branches[i].passed = Len(reqs)
      PROVE  Champion(branches).passed = Len(reqs) /\ Complies(Champion(branches).draft, reqs)
  <2> DEFINE Unbeaten == {k \in DOMAIN branches : \A j \in DOMAIN branches : ~Beats(branches[j], branches[k])}
  <2>1. DOMAIN branches = DOMAIN drafts
    OBVIOUS
  <2>2. ASSUME NEW j \in DOMAIN drafts PROVE ~Beats(branches[j], branches[i])
    BY <1>6, <1>7 DEF Beats
  <2>3. i \in Unbeaten
    BY <2>1, <2>2
  <2>4. Min(Unbeaten) \in Unbeaten
    <3>1. Unbeaten \in SUBSET Nat /\ Unbeaten # {}
      BY <1>2, <2>1, <2>3
    <3> HIDE DEF Unbeaten
    <3> QED BY <3>1, MinIsLeast
  <2> PICK m \in DOMAIN drafts : m = Min(Unbeaten) /\ ~Beats(branches[i], branches[m])
    BY <2>1, <2>4
  <2>5. Champion(branches) = branches[m]
    BY DEF Champion
  <2>6. branches[m].passed = Len(reqs)
    <3>1. ~(branches[i].passed > branches[m].passed)
      BY DEF Beats
    <3>2. branches[m].passed \in Nat /\ Len(reqs) \in Nat /\ branches[m].passed <= Len(reqs)
      BY <1>6
    <3> QED BY <1>7, <3>1, <3>2
  <2> QED BY <1>6, <2>5, <2>6
<1>8. (\E i \in DOMAIN card'.branches : card'.branches[i].passed = Len(card'.reqs)) =>
        card'.champion.passed = Len(card'.reqs) /\ Complies(card'.champion.draft, card'.reqs)
  BY <1>5, <1>7
<1> QED BY <1>5, <1>8 DEF AcceptedDraftsComply

-----------------------------------------------------------------------------
LEMMA VerdictShapeNext == VerdictShape /\ [VerdictNext]_verdictVars => VerdictShape'
<1> SUFFICES ASSUME VerdictShape, [VerdictNext]_verdictVars PROVE VerdictShape'
  OBVIOUS
<1>1. CASE \E file \in PluginFiles : LoadPlugin(file)
  BY <1>1, PluginShape
<1>2. CASE EnsureBuiltins /\ card'.what \in {"receipt", "simulation", "ranking"}
  BY <1>2, LoadedShape DEF VerdictShape, VerdictTypeOK
<1>3. ASSUME NEW reqs \in RequirementLists, NEW d \in Candidates, Receipt(reqs, d) \/ Simulate(reqs, d)
      PROVE  EnsureBuiltins /\ card'.what \in {"receipt", "simulation", "ranking"}
  BY <1>3 DEF Receipt, Simulate
<1>4. ASSUME NEW reqs \in RequirementLists, NEW drafts \in CandidateLists, Prune(reqs, drafts)
      PROVE  EnsureBuiltins /\ card'.what \in {"receipt", "simulation", "ranking"}
  BY <1>4 DEF Prune
<1>5. CASE UNCHANGED verdictVars
  BY <1>5 DEF verdictVars, VerdictShape, VerdictTypeOK
<1> QED BY <1>1, <1>2, <1>3, <1>4, <1>5 DEF VerdictNext

LEMMA AcceptedStaysTrue == VerdictShape /\ AcceptedDraftsComply /\ [VerdictNext]_verdictVars => AcceptedDraftsComply'
<1> SUFFICES ASSUME VerdictShape, AcceptedDraftsComply, [VerdictNext]_verdictVars PROVE AcceptedDraftsComply'
  OBVIOUS
<1>1. CASE UNCHANGED card
  BY <1>1 DEF AcceptedDraftsComply
<1>2. ASSUME NEW file \in PluginFiles, LoadPlugin(file) PROVE UNCHANGED card
  BY <1>2 DEF LoadPlugin
<1>3. UNCHANGED verdictVars => UNCHANGED card
  BY DEF verdictVars
<1> QED BY <1>1, <1>2, <1>3, ReceiptComplies, ChampionComplies DEF VerdictNext

LEMMA NoCardComplies == VerdictInit => AcceptedDraftsComply
<1>1. VerdictInit => card.what = "none"
  BY DEF VerdictInit, NoCard
<1> QED BY <1>1 DEF AcceptedDraftsComply

\* Every kind of requirement is mapped to a verifier that is registered, whatever
\* files of plugins are loaded, in whatever order.
THEOREM VerdictTypeCorrect == VerdictSpec => []VerdictTypeOK
<1>1. VerdictShape => VerdictTypeOK
  BY DEF VerdictShape
<1> QED BY <1>1, VerdictInitShape, VerdictShapeNext, PTL DEF VerdictSpec

\* A draft is called acceptable or safe, and a champion that passed everything is
\* named, only if the built-in checks hold of it, for all plugins, requirements
\* and candidates (format_verification_receipt, run_simulation,
\* prune_candidate_branches).
THEOREM AcceptedComply == VerdictSpec => []AcceptedDraftsComply
BY VerdictInitShape, NoCardComplies, VerdictShapeNext, AcceptedStaysTrue, PTL DEF VerdictSpec

-----------------------------------------------------------------------------
(* TaskContracts.                                                          *)

Kinds == Checkable \cup {"must_include", "must_not"}
TermLists == Seq(Terms \cup {Avoid, Marker})
Constraints == [kind : Kinds, terms : TermLists]
WantedBy == {"must", "must avoid", "must not"}
BannedBy == {"never", "must avoid"}

\* What a contract is and what became of it; a draft that is done passed the contract
\* that the verdict was made with.
ContractShape ==
  /\ stage \in {"new", "persisted", "ephemeral"} /\ prompt \in Prompts /\ draft \in Prompts \cup Drafts
  /\ verdict \in {"DONE", "REPEAT"}
  /\ shown = (IF stage = "new" THEN <<>> ELSE CompileTaskContract(prompt))
  /\ stored = (IF stage = "persisted" THEN GetWorkflowRun(Persisted(prompt)) ELSE <<>>)
  /\ verdict = "DONE" =>
       /\ stage # "new"
       /\ \E asked \in BOOLEAN :
            (stage = "ephemeral" => asked) /\ CheckDraft(draft, Resolved(draft, asked))

LEMMA ContractInitShape == ContractInit => ContractShape
  BY DEF ContractInit, ContractShape

LEMMA ContractShapeNext == ContractShape /\ [ContractNext]_contractVars => ContractShape'
<1> SUFFICES ASSUME ContractShape, [ContractNext]_contractVars PROVE ContractShape'
  OBVIOUS
<1>1. ASSUME NEW persist \in BOOLEAN, PrepareRun(persist) PROVE ContractShape'
  <2>1. /\ stage = "new" /\ stage' = (IF persist THEN "persisted" ELSE "ephemeral")
        /\ UNCHANGED <<prompt, draft, verdict>>
        /\ shown' = CompileTaskContract(prompt)
        /\ stored' = IF persist THEN GetWorkflowRun(Persisted(prompt)) ELSE <<>>
    BY <1>1 DEF PrepareRun, BuildWorkflowRun
  <2>2. verdict = "REPEAT"
    BY <2>1 DEF ContractShape
  <2> QED BY <2>1, <2>2 DEF ContractShape
<1>2. ASSUME NEW d \in Drafts, NEW asked \in BOOLEAN, VerifyOutcomes(d, asked) PROVE ContractShape'
  <2>1. /\ stage # "new" /\ (stage = "ephemeral" => asked) /\ draft' = d
        /\ verdict' = IF CheckDraft(d, Resolved(d, asked)) THEN "DONE" ELSE "REPEAT"
        /\ UNCHANGED <<stage, prompt, shown, stored>>
    BY <1>2 DEF VerifyOutcomes
  <2>2. Resolved(d, asked)' = Resolved(d, asked)
    BY <2>1 DEF Resolved
  <2>3. verdict' = "DONE" => CheckDraft(draft', Resolved(draft, asked)')
    BY <2>1, <2>2 DEF Resolved
  <2> QED BY <2>1, <2>3 DEF ContractShape
<1>3. CASE UNCHANGED contractVars
  BY <1>3 DEF contractVars, ContractShape, Resolved
<1> QED BY <1>1, <1>2, <1>3 DEF ContractNext

-----------------------------------------------------------------------------
(* What is compiled.                                                       *)

LEMMA ImageIsFinite ==
  ASSUME NEW f, IsFiniteSet(DOMAIN f), NEW T, T = {f[x] : x \in DOMAIN f}
  PROVE  IsFiniteSet(T) /\ Cardinality(T) <= Cardinality(DOMAIN f)
<1>1. [x \in DOMAIN f |-> f[x]] \in Surjection(DOMAIN f, T)
  BY DEF Surjection
<1> QED BY <1>1, FS_Surjection

\* The matches of a pattern: what was said, all of it within the limit.
Matches(sel, said) ==
  /\ sel \in Seq({said[i] : i \in DOMAIN said})
  /\ Len(sel) \in Nat /\ DOMAIN sel = 1 .. Len(sel)
  /\ \A n \in DOMAIN sel : \E i \in DOMAIN said : sel[n] = said[i]
  /\ DOMAIN said # {} => Len(sel) > 0
  /\ Cardinality(DOMAIN said) <= ClauseLimit => \A i \in DOMAIN said : \E n \in DOMAIN sel : sel[n] = said[i]

LEMMA MatchesAre ==
  ASSUME NEW said, IsFiniteSet(DOMAIN said), DOMAIN said \subseteq Nat
  PROVE  Matches(ClauseMatches(said), said)
<1> PICK sel : sel = ClauseMatches(said)
  OBVIOUS
<1> DEFINE T == {said[i] : i \in DOMAIN said}
           Where(x) == {i \in DOMAIN said : said[i] = x}
           key == [x \in T |-> Min(Where(x))]
<1>1. \A x \in T : key[x] \in Where(x)
  <2> SUFFICES ASSUME NEW x \in T PROVE Min(Where(x)) \in Where(x)
    OBVIOUS
  <2>1. Where(x) \in SUBSET Nat /\ Where(x) # {}
    OBVIOUS
  <2> HIDE DEF Where
  <2> QED BY <2>1, MinIsLeast
<1>2. IsFiniteSet(T) /\ Cardinality(T) <= Cardinality(DOMAIN said)
  BY ImageIsFinite
<1>3. DOMAIN key = T
  OBVIOUS
<1>4. sel = ByKey(key, ClauseLimit)
  BY DEF ClauseMatches
<1>5. \A x \in T : said[key[x]] = x /\ key[x] \in Nat
  BY <1>1
<1> HIDE DEF key
<1>6. IsKey(key)
  <2>1. \A x, y \in T : key[x] = key[y] => x = y
    BY <1>5
  <2> QED BY <1>2, <1>3, <1>5, <2>1 DEF IsKey
<1>7. ClauseLimit \in Nat /\ ClauseLimit > 0
  BY ContractLimitsAssumption
<1>8. /\ Len(sel) \in Nat /\ DOMAIN sel = 1 .. Len(sel) /\ sel \in Seq(T)
      /\ \A n \in DOMAIN sel : sel[n] \in T
      /\ Cardinality(T) <= ClauseLimit => \A x \in T : \E n \in DOMAIN sel : sel[n] = x
      /\ T # {} => Len(sel) > 0
  <2>1. Selects(sel, key, ClauseLimit)
    BY <1>4, <1>6, <1>7, ByKeyFacts
  <2> HIDE DEF T
  <2> QED BY <1>3, <1>7, <2>1 DEF Selects
<1>9. Cardinality(DOMAIN said) <= ClauseLimit => Cardinality(T) <= ClauseLimit
  BY <1>2, <1>7, FS_CardinalityType
<1> QED BY <1>8, <1>9 DEF Matches

\* The clauses of a text that a pattern finds.
LEMMA WordedAre ==
  ASSUME NEW t \in Text, NEW wordings
  PROVE  /\ t.clauses \in Seq(Clauses) /\ DOMAIN t.clauses = 1 .. Len(t.clauses)
         /\ Worded(t, wordings) \subseteq DOMAIN t.clauses /\ Worded(t, wordings) \subseteq Nat
         /\ IsFiniteSet(Worded(t, wordings)) /\ Cardinality(Worded(t, wordings)) <= Len(t.clauses)
<1>1. t.clauses \in Seq(Clauses) /\ Len(t.clauses) \in Nat /\ DOMAIN t.clauses = 1 .. Len(t.clauses)
  BY DEF Text
<1>2. Worded(t, wordings) \subseteq 1 .. Len(t.clauses) /\ 1 .. Len(t.clauses) \subseteq Nat
  BY <1>1 DEF Worded
<1>3. IsFiniteSet(1 .. Len(t.clauses)) /\ Cardinality(1 .. Len(t.clauses)) = Len(t.clauses)
  <2>1. 1 \in Int /\ Len(t.clauses) \in Int
    BY <1>1
  <2>2. \A n \in Nat : IF 1 > n THEN n = 0 ELSE n - 1 + 1 = n
    OBVIOUS
  <2>3. Cardinality(1 .. Len(t.clauses)) = IF 1 > Len(t.clauses) THEN 0 ELSE Len(t.clauses) - 1 + 1
    BY <2>1, FS_Interval
  <2> QED BY <2>1, <2>2, <2>3, <1>1, FS_Interval
<1> QED BY <1>1, <1>2, <1>3, FS_Subset

\* The first of a sequence.
LEMMA FirstOfIs ==
  ASSUME NEW S, NEW s \in Seq(S), NEW n \in Nat
  PROVE  /\ FirstOf(s, n) \in Seq(S) /\ Range(FirstOf(s, n)) \subseteq Range(s)
         /\ Len(s) <= n => FirstOf(s, n) = s
<1> PICK top : top = IF Len(s) < n THEN Len(s) ELSE n
  OBVIOUS
<1> PICK sub : sub = SubSeq(s, 1, top)
  OBVIOUS
<1> PICK length : length = Len(s)
  OBVIOUS
<1>0. length \in Nat /\ DOMAIN s = 1 .. length
  BY LenProperties
<1>1. /\ top \in Nat /\ top \in Int /\ top <= length /\ (length <= n => top = length)
      /\ top - 1 + 1 = top /\ (~(1 <= top) => top = 0)
  <2>1. top = IF length < n THEN length ELSE n
    OBVIOUS
  <2> QED BY <1>0, <2>1
<1>2. FirstOf(s, n) = sub
  BY DEF FirstOf
<1>3. \A i \in 1 .. top : i \in 1 .. length /\ 1 + i - 1 = i
  BY <1>0, <1>1
<1>4. \A i \in 1 .. top : s[i] \in S
  BY <1>3, ElementOfSeq
<1>5. /\ sub \in Seq(S)
      /\ Len(sub) = IF 1 <= top THEN top - 1 + 1 ELSE 0
      /\ \A i \in 1 .. top - 1 + 1 : sub[i] = s[1 + i - 1]
  <2>1. 1 \in Int
    OBVIOUS
  <2>2. top \in Int
    BY <1>1
  <2> QED BY <1>4, <2>1, <2>2, SubSeqProperties
<1>6. Len(sub) = top /\ DOMAIN sub = 1 .. top
  <2>1. Len(sub) = top
    BY <1>1, <1>5
  <2> QED BY <1>5, <2>1, LenProperties
<1>7. Range(sub) \subseteq Range(s)
  <2>1. \A i \in DOMAIN sub : i \in DOMAIN s /\ sub[i] = s[i]
    BY <1>0, <1>1, <1>3, <1>5, <1>6
  <2> QED BY <2>1 DEF Range
<1>8. Len(s) <= n => sub = s
  BY <1>1, SubSeqFull
<1> QED BY <1>2, <1>5, <1>7, <1>8

LEMMA Numbers == TermLimit \in Nat /\ ClauseLimit \in Nat /\ ContractLimit \in Nat
  BY ContractLimitsAssumption

\* The terms of a constraint: those of its clause, and no more, within the limit.
Selected(terms, all, exact) ==
  /\ terms \in TermLists
  /\ exact => Range(terms) \subseteq Range(all) /\ (Len(all) <= TermLimit => terms = all)
  /\ Range(all) \cap Tokens = {} => \A i \in DOMAIN terms : terms[i] \notin Tokens

LEMMA WantedIs ==
  ASSUME NEW w, NEW v \in Values
  PROVE  Selected(WantedOf(<<w, v>>), TermsOf[v], w # "must avoid")
<1> PICK terms : terms = WantedOf(<<w, v>>)
  OBVIOUS
<1> DEFINE all == (IF w = "must avoid" THEN <<Avoid>> ELSE <<>>) \o TermsOf[v]
           S == Terms \cup {Avoid}
<1>1. TermsOf[v] \in Seq(Terms)
  BY ValuesAssumption
<1>2. terms = FirstOf(all, TermLimit)
  BY Zenon DEF WantedOf
<1>3. TermsOf[v] \in Seq(S)
  <2>1. Terms \subseteq S
    OBVIOUS
  <2> QED BY <1>1, <2>1, SeqMonotonic
<1>4. CASE w # "must avoid"
  <2>1. all = TermsOf[v]
    BY <1>1, <1>4, ConcatEmptySeq
  <2> HIDE DEF all
  <2>2. /\ terms \in Seq(Terms) /\ Range(terms) \subseteq Range(TermsOf[v])
        /\ Len(TermsOf[v]) <= TermLimit => terms = TermsOf[v]
    BY <1>1, <1>2, <2>1, FirstOfIs, Numbers
  <2>3. Terms \subseteq Terms \cup {Avoid, Marker}
    OBVIOUS
  <2>4. terms \in TermLists
    BY <2>2, <2>3, SeqMonotonic DEF TermLists
  <2>5. \A i \in DOMAIN terms : terms[i] \in Terms /\ terms[i] \in Range(terms)
    BY <2>2, ElementOfSeq, LenProperties DEF Range
  <2> QED BY <1>4, <2>2, <2>4, <2>5 DEF Selected
<1>5. CASE w = "must avoid"
  <2> HIDE DEF S
  <2>1. <<Avoid>> \in Seq(S)
    BY DEF S
  <2>2. all = <<Avoid>> \o TermsOf[v]
    BY <1>5
  <2> HIDE DEF all
  <2>3. all \in Seq(S) /\ Range(all) = Range(<<Avoid>>) \cup Range(TermsOf[v])
    <3>1. all \in Seq(S)
      BY <1>3, <2>1, <2>2, ConcatProperties
    <3>2. Range(<<Avoid>> \o TermsOf[v]) = Range(<<Avoid>>) \cup Range(TermsOf[v])
      BY <1>3, <2>1, RangeConcatenation
    <3> QED BY <2>2, <3>1, <3>2
  <2>4. terms \in Seq(S) /\ Range(terms) \subseteq Range(all)
    BY <1>2, <2>3, FirstOfIs, Numbers
  <2>5. S \subseteq Terms \cup {Avoid, Marker}
    BY DEF S
  <2>6. terms \in TermLists
    BY <2>4, <2>5, SeqMonotonic DEF TermLists
  <2>7. \A i \in DOMAIN terms : terms[i] \in S /\ terms[i] \in Range(terms)
    BY <2>4, ElementOfSeq, LenProperties DEF Range
  <2>8. Range(<<Avoid>>) = {Avoid} /\ Avoid \notin Tokens
    BY TermsAssumption DEF Range
  <2> QED BY <1>5, <2>3, <2>4, <2>6, <2>7, <2>8 DEF Selected
<1> QED BY <1>4, <1>5

LEMMA BannedIs ==
  ASSUME NEW v \in Values
  PROVE  Selected(BannedOf(v), TermsOf[v], TRUE)
<1> PICK terms : terms = BannedOf(v)
  OBVIOUS
<1>1. TermsOf[v] \in Seq(Terms)
  BY ValuesAssumption
<1>2. /\ terms \in Seq(Terms) /\ Range(terms) \subseteq Range(TermsOf[v])
      /\ Len(TermsOf[v]) <= TermLimit => terms = TermsOf[v]
  BY <1>1, FirstOfIs, Numbers DEF BannedOf
<1>3. Terms \subseteq Terms \cup {Avoid, Marker}
  OBVIOUS
<1>4. terms \in TermLists
  BY <1>2, <1>3, SeqMonotonic DEF TermLists
<1>5. \A i \in DOMAIN terms : terms[i] \in Range(terms)
  BY DEF Range
<1> QED BY <1>2, <1>4, <1>5 DEF Selected

LEMMA ClauseIs ==
  ASSUME NEW t \in Text, NEW i \in DOMAIN t.clauses
  PROVE  /\ t.clauses[i].value \in Values /\ t.clauses[i].wording \in {"must", "never", "must avoid", "must not"}
<1>1. t.clauses[i] \in Clauses
  BY DEF Text
<1> QED BY <1>1 DEF Clauses

LEMMA PhraseIs ==
  ASSUME NEW t \in Text, NEW i \in DOMAIN t.clauses
  PROVE  Selected(WantedOf(Said(t, i)), TermsOf[t.clauses[i].value], t.clauses[i].wording # "must avoid")
<1> PICK w : w = t.clauses[i].wording
  OBVIOUS
<1> PICK v : v = t.clauses[i].value
  OBVIOUS
<1>1. v \in Values
  BY ClauseIs
<1>2. Said(t, i) = <<w, v>>
  BY Zenon DEF Said
<1>3. Selected(WantedOf(<<w, v>>), TermsOf[v], w # "must avoid")
  BY <1>1, WantedIs
<1> QED BY <1>2, <1>3, Zenon

Wants(sel, t) ==
  /\ Len(sel) \in Nat /\ DOMAIN sel = 1 .. Len(sel)
  /\ \A n \in DOMAIN sel : \E i \in Worded(t, WantedBy) : sel[n] = Said(t, i)
  /\ Worded(t, WantedBy) # {} => Len(sel) > 0
  /\ Len(t.clauses) <= ClauseLimit => \A i \in Worded(t, WantedBy) : \E n \in DOMAIN sel : sel[n] = Said(t, i)

LEMMA PhrasesAre == ASSUME NEW t \in Text PROVE Wants(MustPhrases(t), t)
<1> PICK sel : sel = MustPhrases(t)
  OBVIOUS
<1> DEFINE W == Worded(t, WantedBy)
           said == [i \in W |-> Said(t, i)]
<1>1. sel = ClauseMatches(said) /\ DOMAIN said = W
  BY DEF MustPhrases, WantedBy
<1>2. IsFiniteSet(W) /\ W \subseteq Nat /\ Cardinality(W) <= Len(t.clauses) /\ t.clauses \in Seq(Clauses)
  BY WordedAre
<1> HIDE DEF W
<1>3. Cardinality(W) \in Nat /\ Len(t.clauses) \in Nat /\ ClauseLimit \in Nat
  BY <1>2, FS_CardinalityType, Numbers
<1>4. \A i \in W : said[i] = Said(t, i)
  OBVIOUS
<1> HIDE DEF said
<1>5. Matches(sel, said)
  BY <1>1, <1>2, MatchesAre
<1>6. Len(t.clauses) <= ClauseLimit => Cardinality(DOMAIN said) <= ClauseLimit
  BY <1>1, <1>2, <1>3
<1>7. /\ Len(sel) \in Nat /\ DOMAIN sel = 1 .. Len(sel)
      /\ \A n \in DOMAIN sel : \E i \in W : sel[n] = Said(t, i)
      /\ W # {} => Len(sel) > 0
  BY <1>1, <1>4, <1>5 DEF Matches
<1>8. Len(t.clauses) <= ClauseLimit => \A i \in W : \E n \in DOMAIN sel : sel[n] = Said(t, i)
  <2>1. Len(t.clauses) <= ClauseLimit => \A i \in DOMAIN said : \E n \in DOMAIN sel : sel[n] = said[i]
    BY <1>5, <1>6 DEF Matches
  <2> QED BY <1>1, <1>4, <2>1
<1> QED BY <1>7, <1>8 DEF W, Wants

Bans(sel, t) ==
  /\ Len(sel) \in Nat /\ DOMAIN sel = 1 .. Len(sel)
  /\ \A n \in DOMAIN sel : \E i \in Worded(t, BannedBy) : sel[n] = t.clauses[i].value
  /\ Worded(t, BannedBy) # {} => Len(sel) > 0
  /\ Len(t.clauses) <= ClauseLimit => \A i \in Worded(t, BannedBy) : \E n \in DOMAIN sel : sel[n] = t.clauses[i].value

LEMMA NegationsAre == ASSUME NEW t \in Text PROVE Bans(Negations(t), t)
<1> PICK sel : sel = Negations(t)
  OBVIOUS
<1> DEFINE W == Worded(t, BannedBy)
           said == [i \in W |-> t.clauses[i].value]
<1>1. sel = ClauseMatches(said) /\ DOMAIN said = W
  BY DEF Negations, BannedBy
<1>2. IsFiniteSet(W) /\ W \subseteq Nat /\ Cardinality(W) <= Len(t.clauses) /\ t.clauses \in Seq(Clauses)
  BY WordedAre
<1> HIDE DEF W
<1>3. Cardinality(W) \in Nat /\ Len(t.clauses) \in Nat /\ ClauseLimit \in Nat
  BY <1>2, FS_CardinalityType, Numbers
<1>4. \A i \in W : said[i] = t.clauses[i].value
  OBVIOUS
<1> HIDE DEF said
<1>5. Matches(sel, said)
  BY <1>1, <1>2, MatchesAre
<1>6. Len(t.clauses) <= ClauseLimit => Cardinality(DOMAIN said) <= ClauseLimit
  BY <1>1, <1>2, <1>3
<1>7. /\ Len(sel) \in Nat /\ DOMAIN sel = 1 .. Len(sel)
      /\ \A n \in DOMAIN sel : \E i \in W : sel[n] = t.clauses[i].value
      /\ W # {} => Len(sel) > 0
  BY <1>1, <1>4, <1>5 DEF Matches
<1>8. Len(t.clauses) <= ClauseLimit => \A i \in W : \E n \in DOMAIN sel : sel[n] = t.clauses[i].value
  <2>1. Len(t.clauses) <= ClauseLimit => \A i \in DOMAIN said : \E n \in DOMAIN sel : sel[n] = said[i]
    BY <1>5, <1>6 DEF Matches
  <2> QED BY <1>1, <1>4, <2>1
<1> QED BY <1>7, <1>8 DEF W, Bans

LEMMA FurtherAre ==
  ASSUME NEW t \in Text, NEW more, more = Further(t)
  PROVE  /\ more \in Seq(Constraints) /\ Len(more) \in Nat /\ DOMAIN more = 1 .. Len(more)
         /\ \A n \in DOMAIN more : more[n].kind \in Checkable /\ more[n].terms \in {<<>>, t.files}
<1> DEFINE order == <<"max_words", "format", "scope_files", "cite_quotes", "run_tests", "answer_directly">>
           asked == [max_words |-> "max_words" \in t.asks,
                     format |-> "format" \in t.asks,
                     scope_files |-> t.files # <<>>,
                     cite_quotes |-> "research" \in t.asks,
                     run_tests |-> {"code", "tests"} \subseteq t.asks,
                     answer_directly |-> "simple" \in t.asks /\ t.asks \cap {"code", "research"} = {}]
           P == {m \in 1 .. 6 : asked[order[m]]}
           key == [n \in P |-> n]
           kinds == ByKey(key, 6)
           FilesOf(kind) == IF kind = "scope_files" THEN t.files ELSE <<>>
<1>1. more = [i \in DOMAIN kinds |-> Constraint(order[kinds[i]], FilesOf(order[kinds[i]]))]
  BY Zenon DEF Further
<1>2. \A n \in 1 .. 6 : order[n] \in Checkable
  BY DEF Checkable
<1>3. P \subseteq 1 .. 6
  OBVIOUS
<1> HIDE DEF order, asked, P
<1>4. IsKey(key) /\ DOMAIN key = P
  <2>1. IsFiniteSet(1 .. 6)
    <3>1. 1 \in Int /\ 6 \in Int
      OBVIOUS
    <3> QED BY <3>1, FS_Interval
  <2>2. IsFiniteSet(P)
    BY <1>3, <2>1, FS_Subset
  <2> QED BY <1>3, <2>2 DEF IsKey
<1> HIDE DEF key
<1>5. /\ Len(kinds) \in Nat /\ DOMAIN kinds = 1 .. Len(kinds)
      /\ \A n \in DOMAIN kinds : kinds[n] \in DOMAIN key
  <2>1. Selects(kinds, key, 6)
    BY <1>4, ByKeyFacts
  <2> HIDE DEF kinds
  <2> QED BY <2>1 DEF Selects
<1> HIDE DEF kinds
<1>6. \A n \in 1 .. Len(kinds) : more[n] = Constraint(order[kinds[n]], FilesOf(order[kinds[n]])) /\ order[kinds[n]] \in Checkable
  BY <1>1, <1>2, <1>3, <1>4, <1>5
<1>7. \A n \in 1 .. Len(kinds) : more[n] \in Constraints /\ more[n].kind \in Checkable /\ more[n].terms \in {<<>>, t.files}
  <2>1. {<<>>, t.files} \subseteq TermLists
    <3>1. t.files \in Seq(Files) /\ Files \subseteq Terms \cup {Avoid, Marker}
      BY TermsAssumption DEF Text
    <3>2. t.files \in TermLists
      BY <3>1, SeqMonotonic DEF TermLists
    <3>3. <<>> \in TermLists
      BY EmptySeq DEF TermLists
    <3> QED BY <3>2, <3>3
  <2>2. \A k \in Checkable : FilesOf(k) \in {<<>>, t.files}
    BY Zenon
  <2> HIDE DEF FilesOf
  <2>3. \A k \in Checkable : /\ Constraint(k, FilesOf(k)) \in Constraints /\ Constraint(k, FilesOf(k)).kind = k
                             /\ Constraint(k, FilesOf(k)).terms = FilesOf(k)
    BY <2>1, <2>2 DEF Constraint, Constraints, Kinds
  <2> QED BY <1>6, <2>2, <2>3
<1>8. more \in [1 .. Len(kinds) -> Constraints]
  BY <1>1, <1>5, <1>7
<1> QED BY <1>5, <1>7, <1>8

\* Three sequences, one after the other.
Joined(all, a, b, c) ==
  /\ Len(all) = Len(a) + Len(b) + Len(c) /\ DOMAIN all = 1 .. Len(all)
  /\ \A n \in DOMAIN a : \E k \in DOMAIN all : all[k] = a[n]
  /\ \A n \in DOMAIN b : \E k \in DOMAIN all : all[k] = b[n]
  /\ \A n \in DOMAIN c : \E k \in DOMAIN all : all[k] = c[n]
  /\ \A k \in DOMAIN all : \/ \E n \in DOMAIN a : all[k] = a[n]
                           \/ \E n \in DOMAIN b : all[k] = b[n]
                           \/ \E n \in DOMAIN c : all[k] = c[n]

LEMMA ThreeInARow ==
  ASSUME NEW S, NEW a \in Seq(S), NEW b \in Seq(S), NEW c \in Seq(S)
  PROVE  a \o b \o c \in Seq(S) /\ Joined(a \o b \o c, a, b, c)
<1> PICK all : all = a \o b \o c
  OBVIOUS
<1>1. /\ Len(a) \in Nat /\ Len(b) \in Nat /\ Len(c) \in Nat
      /\ DOMAIN a = 1 .. Len(a) /\ DOMAIN b = 1 .. Len(b) /\ DOMAIN c = 1 .. Len(c)
  OBVIOUS
<1>2. /\ a \o b \in Seq(S) /\ Len(a \o b) = Len(a) + Len(b)
      /\ \A i \in 1 .. Len(a) + Len(b) : (a \o b)[i] = IF i <= Len(a) THEN a[i] ELSE b[i - Len(a)]
  BY ConcatProperties
<1>3. /\ all \in Seq(S) /\ Len(all) = Len(a) + Len(b) + Len(c) /\ DOMAIN all = 1 .. Len(all)
      /\ \A i \in 1 .. Len(a) + Len(b) + Len(c) :
           all[i] = IF i <= Len(a) + Len(b) THEN (a \o b)[i] ELSE c[i - (Len(a) + Len(b))]
  <2>1. all \in Seq(S) /\ Len(all) = Len(a \o b) + Len(c)
        /\ \A i \in 1 .. Len(a \o b) + Len(c) : all[i] = IF i <= Len(a \o b) THEN (a \o b)[i] ELSE c[i - Len(a \o b)]
    BY <1>2, ConcatProperties
  <2>2. DOMAIN all = 1 .. Len(all)
    BY <2>1, LenProperties
  <2> QED BY <1>2, <2>1, <2>2
<1>4. ASSUME NEW n \in DOMAIN a PROVE \E k \in DOMAIN all : all[k] = a[n]
  <2>1. n \in DOMAIN all /\ all[n] = a[n]
    BY <1>1, <1>2, <1>3
  <2> QED BY <2>1
<1>5. ASSUME NEW n \in DOMAIN b PROVE \E k \in DOMAIN all : all[k] = b[n]
  <2>1. Len(a) + n \in DOMAIN all /\ all[Len(a) + n] = (a \o b)[Len(a) + n]
    BY <1>1, <1>3
  <2>2. (a \o b)[Len(a) + n] = b[n]
    <3>1. Len(a) + n \in 1 .. Len(a) + Len(b) /\ ~(Len(a) + n <= Len(a)) /\ Len(a) + n - Len(a) = n
      BY <1>1
    <3> QED BY <1>2, <3>1
  <2> QED BY <2>1, <2>2
<1>6. ASSUME NEW n \in DOMAIN c PROVE \E k \in DOMAIN all : all[k] = c[n]
  <2> DEFINE k == Len(a) + Len(b) + n
  <2>1. k \in 1 .. Len(a) + Len(b) + Len(c) /\ ~(k <= Len(a) + Len(b)) /\ k - (Len(a) + Len(b)) = n
    BY <1>1
  <2>2. all[k] = c[n] /\ k \in DOMAIN all
    BY <1>3, <2>1
  <2> QED BY <2>2
<1>7. ASSUME NEW k \in DOMAIN all
      PROVE  \/ \E n \in DOMAIN a : all[k] = a[n]
             \/ \E n \in DOMAIN b : all[k] = b[n]
             \/ \E n \in DOMAIN c : all[k] = c[n]
  <2>1. k \in 1 .. Len(a) + Len(b) + Len(c)
    BY <1>3
  <2>2. CASE k <= Len(a)
    <3>1. k \in DOMAIN a /\ k \in 1 .. Len(a) + Len(b) /\ k <= Len(a) + Len(b)
      BY <1>1, <2>1, <2>2
    <3> QED BY <1>2, <1>3, <2>1, <2>2, <3>1
  <2>3. CASE ~(k <= Len(a)) /\ k <= Len(a) + Len(b)
    <3>1. k - Len(a) \in DOMAIN b /\ k \in 1 .. Len(a) + Len(b)
      BY <1>1, <2>1, <2>3
    <3>2. all[k] = b[k - Len(a)]
      BY <1>2, <1>3, <2>1, <2>3, <3>1
    <3> QED BY <3>1, <3>2
  <2>4. CASE ~(k <= Len(a) + Len(b))
    <3>1. k - (Len(a) + Len(b)) \in DOMAIN c
      BY <1>1, <2>1, <2>4
    <3>2. all[k] = c[k - (Len(a) + Len(b))]
      BY <1>3, <2>1, <2>4
    <3> QED BY <3>1, <3>2
  <2> QED BY <2>2, <2>3, <2>4
<1> QED BY <1>3, <1>4, <1>5, <1>6, <1>7 DEF Joined

\* Every constraint of a contract is of one of three kinds.
Wanting(t, c) == \E i \in Worded(t, WantedBy) : c = Constraint("must_include", WantedOf(Said(t, i)))
Banning(t, c) == \E i \in Worded(t, BannedBy) : c = Constraint("must_not", BannedOf(t.clauses[i].value))
Faulting(t, c) == \E n \in DOMAIN Further(t) : c = Further(t)[n]

\* What the constraints of a text are: they come from its clauses and from what else
\* it asks for, and within the limit all of these have one.
Demands(all, t) ==
  /\ all \in Seq(Constraints) /\ Len(all) \in Nat /\ DOMAIN all = 1 .. Len(all)
  /\ \A k \in DOMAIN all : Wanting(t, all[k]) \/ Banning(t, all[k]) \/ Faulting(t, all[k])
  /\ \A n \in DOMAIN Further(t) : \E k \in DOMAIN all : all[k] = Further(t)[n]
  /\ Worded(t, WantedBy) # {} \/ Worded(t, BannedBy) # {} => all # <<>>
  /\ Len(t.clauses) <= ClauseLimit =>
       /\ \A i \in Worded(t, WantedBy) : \E k \in DOMAIN all : all[k] = Constraint("must_include", WantedOf(Said(t, i)))
       /\ \A i \in Worded(t, BannedBy) : \E k \in DOMAIN all : all[k] = Constraint("must_not", BannedOf(t.clauses[i].value))

LEMMA AllAre == ASSUME NEW t \in Text PROVE Demands(AllConstraints(t), t)
<1> PICK all : all = AllConstraints(t)
  OBVIOUS
<1> PICK must : must = MustPhrases(t)
  OBVIOUS
<1> PICK never : never = Negations(t)
  OBVIOUS
<1> PICK more : more = Further(t)
  OBVIOUS
<1> DEFINE a == [n \in DOMAIN must |-> Constraint("must_include", WantedOf(must[n]))]
           b == [n \in DOMAIN never |-> Constraint("must_not", BannedOf(never[n]))]
<1>1. all = a \o b \o more
  BY DEF AllConstraints
<1>2. Wants(must, t)
  BY PhrasesAre
<1>3. Bans(never, t)
  BY NegationsAre
<1>4. more \in Seq(Constraints)
  BY FurtherAre
<1>5. DOMAIN a = DOMAIN must /\ \A n \in DOMAIN a : a[n] = Constraint("must_include", WantedOf(must[n]))
  OBVIOUS
<1>6. DOMAIN b = DOMAIN never /\ \A n \in DOMAIN b : b[n] = Constraint("must_not", BannedOf(never[n]))
  OBVIOUS
<1>7. a \in Seq(Constraints)
  <2>1. Len(must) \in Nat /\ DOMAIN must = 1 .. Len(must)
    BY <1>2 DEF Wants
  <2>2. ASSUME NEW n \in 1 .. Len(must) PROVE WantedOf(must[n]) \in TermLists
    <3>1. PICK i \in Worded(t, WantedBy) : must[n] = Said(t, i)
      BY <1>2, <2>1 DEF Wants
    <3>2. i \in DOMAIN t.clauses
      BY DEF Worded
    <3>3. WantedOf(Said(t, i)) \in TermLists
      BY <3>2, PhraseIs DEF Selected
    <3> QED BY <3>1, <3>3
  <2>3. \A n \in 1 .. Len(must) : Constraint("must_include", WantedOf(must[n])) \in Constraints
    BY <2>2 DEF Constraint, Constraints, Kinds
  <2>4. a \in [1 .. Len(must) -> Constraints]
    BY <2>1, <2>3
  <2> QED BY <2>1, <2>4
<1>8. b \in Seq(Constraints)
  <2>1. Len(never) \in Nat /\ DOMAIN never = 1 .. Len(never)
    BY <1>3 DEF Bans
  <2>2. ASSUME NEW n \in 1 .. Len(never) PROVE BannedOf(never[n]) \in TermLists
    <3>1. PICK i \in Worded(t, BannedBy) : never[n] = t.clauses[i].value
      BY <1>3, <2>1 DEF Bans
    <3>2. i \in DOMAIN t.clauses
      BY DEF Worded
    <3> QED BY <3>1, <3>2, ClauseIs, BannedIs DEF Selected
  <2>3. \A n \in 1 .. Len(never) : Constraint("must_not", BannedOf(never[n])) \in Constraints
    BY <2>2 DEF Constraint, Constraints, Kinds
  <2>4. b \in [1 .. Len(never) -> Constraints]
    BY <2>1, <2>3
  <2> QED BY <2>1, <2>4
<1> HIDE DEF a, b
<1>0. all \in Seq(Constraints) /\ Joined(all, a, b, more)
  BY <1>1, <1>4, <1>7, <1>8, ThreeInARow
<1>9. /\ all \in Seq(Constraints) /\ Len(all) = Len(a) + Len(b) + Len(more) /\ DOMAIN all = 1 .. Len(all)
      /\ \A n \in DOMAIN a : \E k \in DOMAIN all : all[k] = a[n]
      /\ \A n \in DOMAIN b : \E k \in DOMAIN all : all[k] = b[n]
      /\ \A n \in DOMAIN more : \E k \in DOMAIN all : all[k] = more[n]
      /\ \A k \in DOMAIN all : \/ \E n \in DOMAIN a : all[k] = a[n]
                               \/ \E n \in DOMAIN b : all[k] = b[n]
                               \/ \E n \in DOMAIN more : all[k] = more[n]
  BY <1>0 DEF Joined
<1>10. ASSUME NEW k \in DOMAIN all PROVE Wanting(t, all[k]) \/ Banning(t, all[k]) \/ Faulting(t, all[k])
  <2>1. CASE \E n \in DOMAIN a : all[k] = a[n]
    BY <1>2, <1>5, <2>1 DEF Wanting, Wants
  <2>2. CASE \E n \in DOMAIN b : all[k] = b[n]
    BY <1>3, <1>6, <2>2 DEF Banning, Bans
  <2>3. CASE \E n \in DOMAIN more : all[k] = more[n]
    BY <2>3 DEF Faulting
  <2> QED BY <1>9, <2>1, <2>2, <2>3
<1>11. ASSUME Len(t.clauses) <= ClauseLimit, NEW i \in Worded(t, WantedBy)
       PROVE  \E k \in DOMAIN all : all[k] = Constraint("must_include", WantedOf(Said(t, i)))
  <2>1. PICK n \in DOMAIN must : must[n] = Said(t, i)
    BY <1>2, <1>11 DEF Wants
  <2>2. a[n] = Constraint("must_include", WantedOf(Said(t, i))) /\ n \in DOMAIN a
    BY <1>5, <2>1
  <2> QED BY <1>9, <2>2
<1>12. ASSUME Len(t.clauses) <= ClauseLimit, NEW i \in Worded(t, BannedBy)
       PROVE  \E k \in DOMAIN all : all[k] = Constraint("must_not", BannedOf(t.clauses[i].value))
  <2>1. PICK n \in DOMAIN never : never[n] = t.clauses[i].value
    BY <1>3, <1>12 DEF Bans
  <2>2. b[n] = Constraint("must_not", BannedOf(t.clauses[i].value)) /\ n \in DOMAIN b
    BY <1>6, <2>1
  <2> QED BY <1>9, <2>2
<1>13. Len(all) \in Nat
  BY <1>9
<1>14. ASSUME Worded(t, WantedBy) # {} \/ Worded(t, BannedBy) # {} PROVE all # <<>>
  <2>1. Len(must) > 0 \/ Len(never) > 0
    BY <1>2, <1>3, <1>14 DEF Wants, Bans
  <2>2. (Len(must) > 0 => 1 \in DOMAIN a) /\ (Len(never) > 0 => 1 \in DOMAIN b)
    BY <1>2, <1>3, <1>5, <1>6 DEF Wants, Bans
  <2>3. DOMAIN all # {}
    BY <1>9, <2>1, <2>2
  <2> QED BY <2>3
<1> QED BY <1>9, <1>10, <1>11, <1>12, <1>13, <1>14 DEF Demands

\* A compiled contract: the first of the constraints, all of them within the limit, or
\* else the words of the text.
Compiled(c, t) ==
  /\ c \in Seq(Constraints) /\ Len(c) \in Nat /\ DOMAIN c = 1 .. Len(c)
  /\ Len(c) > 0 /\ Len(c) <= ContractLimit
  /\ IF AllConstraints(t) = <<>>
     THEN \A n \in DOMAIN c : c[n] = Constraint("must_include", t.goal)
     ELSE \A n \in DOMAIN c : n \in DOMAIN AllConstraints(t) /\ c[n] = AllConstraints(t)[n]
  /\ AllConstraints(t) # <<>> /\ Len(AllConstraints(t)) <= ContractLimit => DOMAIN c = DOMAIN AllConstraints(t)

TopOf(top, length, limit) ==
  /\ top \in Int /\ top > 0 /\ 1 <= top /\ top - 1 + 1 = top
  /\ top <= length /\ top <= limit /\ (length <= limit => top = length)
  /\ \A i \in 1 .. top : i \in 1 .. length /\ 1 + i - 1 = i

LEMMA TopIs ==
  ASSUME NEW length \in Nat, length # 0, NEW limit \in Nat, limit > 0
  PROVE  TopOf(IF length < limit THEN length ELSE limit, length, limit)
  BY DEF TopOf

LEMMA ConstraintIs ==
  \A kind, terms : Constraint(kind, terms).kind = kind /\ Constraint(kind, terms).terms = terms
  BY DEF Constraint

\* A constraint without tokens.
TokenFree(c) == \A i \in DOMAIN c.terms : c.terms[i] \notin Tokens

LEMMA CompiledIs == ASSUME NEW t \in Text PROVE Compiled(CompileTaskContract(t), t)
<1> PICK c : c = CompileTaskContract(t)
  OBVIOUS
<1> PICK all : all = AllConstraints(t)
  OBVIOUS
<1>1. all \in Seq(Constraints) /\ Len(all) \in Nat /\ DOMAIN all = 1 .. Len(all)
  BY AllAre DEF Demands
<1>2. ContractLimit \in Nat /\ ContractLimit > 0
  BY ContractLimitsAssumption
<1>3. CASE all = <<>>
  <2> PICK one : one = Constraint("must_include", t.goal)
    OBVIOUS
  <2>1. one \in Constraints
    <3>1. t.goal \in Seq(Terms) /\ Terms \subseteq Terms \cup {Avoid, Marker}
      BY DEF Text
    <3>2. t.goal \in TermLists
      BY <3>1, SeqMonotonic DEF TermLists
    <3> QED BY <3>2 DEF Constraint, Constraints, Kinds
  <2>2. c = <<one>>
    BY <1>3 DEF CompileTaskContract
  <2>3. c \in Seq(Constraints) /\ Len(c) = 1 /\ DOMAIN c = 1 .. 1 /\ \A n \in DOMAIN c : c[n] = one
    BY <2>1, <2>2
  <2> QED BY <1>2, <1>3, <2>3 DEF Compiled
<1>4. CASE all # <<>>
  <2> PICK top : top = IF Len(all) < ContractLimit THEN Len(all) ELSE ContractLimit
    OBVIOUS
  <2>0. Len(all) # 0
    BY <1>1, <1>4, EmptySeq
  <2>1. /\ top \in Int /\ top > 0 /\ 1 <= top /\ top - 1 + 1 = top
        /\ top <= Len(all) /\ top <= ContractLimit /\ (Len(all) <= ContractLimit => top = Len(all))
        /\ \A i \in 1 .. top : i \in 1 .. Len(all) /\ 1 + i - 1 = i
    <3>1. TopOf(top, Len(all), ContractLimit)
      BY <1>1, <1>2, <2>0, TopIs
    <3> QED BY <3>1 DEF TopOf
  <2>2. c = SubSeq(all, 1, top)
    BY <1>4 DEF CompileTaskContract, FirstOf
  <2>3. \A i \in 1 .. top : i \in DOMAIN all /\ all[i] \in Constraints
    <3>1. \A i \in 1 .. Len(all) : all[i] \in Constraints
      BY <1>1, ElementOfSeq
    <3> QED BY <1>1, <2>1, <3>1
  <2>4. /\ c \in Seq(Constraints)
        /\ Len(c) = IF 1 <= top THEN top - 1 + 1 ELSE 0
        /\ \A i \in 1 .. top - 1 + 1 : c[i] = all[1 + i - 1]
    <3>1. 1 \in Int
      OBVIOUS
    <3> QED BY <2>1, <2>2, <2>3, <3>1, SubSeqProperties
  <2>5. Len(c) = top /\ Len(c) \in Nat /\ DOMAIN c = 1 .. Len(c)
    BY <2>1, <2>4, LenProperties
  <2>6. \A i \in DOMAIN c : c[i] = all[i]
    BY <2>1, <2>4, <2>5
  <2> QED BY <1>1, <1>4, <2>1, <2>3, <2>4, <2>5, <2>6 DEF Compiled
<1> QED BY <1>3, <1>4

\* Redaction leaves a constraint alone that holds no token.
LEMMA RedactedIs ==
  ASSUME NEW c \in Constraints
  PROVE  Redacted(c) \in Constraints /\ (TokenFree(c) => Redacted(c) = c)
<1> PICK terms : terms = c.terms
  OBVIOUS
<1> DEFINE kept == [i \in DOMAIN terms |-> IF terms[i] \in Tokens THEN Marker ELSE terms[i]]
<1>1. /\ c.kind \in Kinds /\ terms \in Seq(Terms \cup {Avoid, Marker})
      /\ c = [kind |-> c.kind, terms |-> terms]
  BY DEF Constraints, TermLists
<1>2. Len(terms) \in Nat /\ DOMAIN terms = 1 .. Len(terms) /\ \A i \in 1 .. Len(terms) : terms[i] \in Terms \cup {Avoid, Marker}
  BY <1>1, LenProperties, ElementOfSeq
<1>3. kept \in TermLists
  <2>1. kept \in [1 .. Len(terms) -> Terms \cup {Avoid, Marker}]
    BY <1>2
  <2> QED BY <1>2, <2>1 DEF TermLists
<1>4. (\A i \in DOMAIN terms : terms[i] \notin Tokens) => kept = terms
  <2> SUFFICES ASSUME \A i \in DOMAIN terms : terms[i] \notin Tokens PROVE kept = terms
    OBVIOUS
  <2>1. terms = [i \in DOMAIN terms |-> terms[i]]
    BY <1>1, <1>2
  <2> QED BY <2>1
<1>5. Redacted(c) = [kind |-> c.kind, terms |-> kept]
  <2>1. Redacted(c) = [c EXCEPT !.terms = kept]
    BY DEF Redacted
  <2> QED BY <1>1, <2>1
<1> HIDE DEF kept
<1> QED BY <1>1, <1>3, <1>4, <1>5 DEF Constraints, TokenFree

\* What is stored of a text.
StoredAs(s, t) ==
  /\ s \in Seq(Constraints)
  /\ TornContract(t) => s = <<>>
  /\ ~TornContract(t) =>
       /\ s # <<>> /\ DOMAIN s = DOMAIN CompileTaskContract(t)
       /\ \A n \in DOMAIN s : s[n] = Redacted(CompileTaskContract(t)[n])

LEMMA KeptIs == ASSUME NEW t \in Text PROVE StoredAs(GetWorkflowRun(Persisted(t)), t)
<1> PICK c : c = CompileTaskContract(t)
  OBVIOUS
<1> PICK torn : torn = TornContract(t)
  OBVIOUS
<1> PICK s : s = GetWorkflowRun(Persisted(t))
  OBVIOUS
<1>1. c \in Seq(Constraints) /\ Len(c) \in Nat /\ DOMAIN c = 1 .. Len(c) /\ Len(c) > 0
  BY CompiledIs DEF Compiled
<1>2. s = IF ~TornContract(t) THEN [n \in DOMAIN c |-> Redacted(c[n])] ELSE <<>>
  BY Zenon DEF GetWorkflowRun, Persisted
<1>3. CASE TornContract(t)
  BY <1>2, <1>3 DEF StoredAs
<1>4. CASE ~TornContract(t)
  <2>1. s = [n \in 1 .. Len(c) |-> Redacted(c[n])]
    BY <1>1, <1>2, <1>4
  <2>2. \A n \in 1 .. Len(c) : Redacted(c[n]) \in Constraints
    BY <1>1, RedactedIs
  <2>3. s \in [1 .. Len(c) -> Constraints]
    BY <2>1, <2>2
  <2>4. s \in Seq(Constraints) /\ DOMAIN s = 1 .. Len(c) /\ \A n \in DOMAIN s : s[n] = Redacted(c[n])
    BY <1>1, <2>1, <2>3
  <2>5. s # <<>>
    BY <1>1, <2>4, 1 \in 1 .. Len(c)
  <2> QED BY <1>1, <1>4, <2>4, <2>5 DEF StoredAs
<1> QED BY <1>3, <1>4

\* The texts that a state holds.
LEMMA TextsAre == ContractShape => prompt \in Text /\ draft \in Text
  BY TextsAssumption DEF ContractShape

LEMMA ContractShapeType == ContractShape => ContractTypeOK
<1> SUFFICES ASSUME ContractShape PROVE ContractTypeOK
  OBVIOUS
<1>1. Compiled(CompileTaskContract(prompt), prompt)
  BY TextsAre, CompiledIs
<1>2. StoredAs(GetWorkflowRun(Persisted(prompt)), prompt)
  BY TextsAre, KeptIs
<1>3. Seq(Constraints) = Seq([kind : Checkable \cup {"must_include", "must_not"}, terms : Seq(Terms \cup {Avoid, Marker})])
  BY DEF Constraints, Kinds, TermLists
<1>4. <<>> \in Seq(Constraints) /\ Len(<<>>) = 0 /\ ContractLimit \in Nat
  BY ContractLimitsAssumption
<1>5. shown \in Seq(Constraints) /\ Len(shown) <= ContractLimit
  BY <1>1, <1>4 DEF ContractShape, Compiled
<1>6. stored \in Seq(Constraints)
  BY <1>2, <1>4 DEF ContractShape, StoredAs
<1>7. IsContract(shown) /\ IsContract(stored)
  BY <1>3, <1>5, <1>6 DEF IsContract
<1> QED BY <1>5, <1>7 DEF ContractShape, ContractTypeOK

\* What is shown is a contract within the limit, and what is stored is one, whatever
\* redaction made of it, for all texts, tokens and limits (compile_task_contract,
\* record_workflow_run).
THEOREM ContractTypeCorrect == ContractSpec => []ContractTypeOK
<1> QED BY ContractInitShape, ContractShapeNext, ContractShapeType, PTL DEF ContractSpec

-----------------------------------------------------------------------------
(* An accepted draft.                                                      *)

\* Where there are no tokens, no constraint has one.
LEMMA FreeOfTokens ==
  ASSUME NEW t \in Text, WithoutTokens(t), NEW c, Wanting(t, c) \/ Banning(t, c) \/ Faulting(t, c)
  PROVE  TokenFree(c)
<1>0. \A i \in DOMAIN t.clauses : Range(TermsOf[t.clauses[i].value]) \cap Tokens = {}
  BY DEF WithoutTokens
<1>1. CASE Wanting(t, c)
  <2>1. PICK i \in Worded(t, WantedBy) : c = Constraint("must_include", WantedOf(Said(t, i)))
    BY <1>1 DEF Wanting
  <2>2. i \in DOMAIN t.clauses
    BY DEF Worded
  <2>3. \A n \in DOMAIN WantedOf(Said(t, i)) : WantedOf(Said(t, i))[n] \notin Tokens
    BY <1>0, <2>2, PhraseIs DEF Selected
  <2> QED BY <2>1, <2>3, ConstraintIs DEF TokenFree
<1>2. CASE Banning(t, c)
  <2>1. PICK i \in Worded(t, BannedBy) : c = Constraint("must_not", BannedOf(t.clauses[i].value))
    BY <1>2 DEF Banning
  <2>2. i \in DOMAIN t.clauses
    BY DEF Worded
  <2>3. \A n \in DOMAIN BannedOf(t.clauses[i].value) : BannedOf(t.clauses[i].value)[n] \notin Tokens
    BY <1>0, <2>2, ClauseIs, BannedIs DEF Selected
  <2> QED BY <2>1, <2>3, ConstraintIs DEF TokenFree
<1>3. CASE Faulting(t, c)
  <2>1. PICK n \in DOMAIN Further(t) : c = Further(t)[n]
    BY <1>3 DEF Faulting
  <2>2. c.terms \in {<<>>, t.files}
    BY <2>1, FurtherAre
  <2>3. \A i \in DOMAIN t.files : t.files[i] \notin Tokens
    BY DEF WithoutTokens, Range
  <2>4. DOMAIN <<>> = {}
    OBVIOUS
  <2> QED BY <2>2, <2>3, <2>4 DEF TokenFree
<1> QED BY <1>1, <1>2, <1>3

\* A draft that passes the contract of a text within the limits, as compiled or as
\* stored, passes every constraint.
LEMMA AllArePassed ==
  ASSUME ContractShape, FitsContract(prompt), NEW d, NEW asked \in BOOLEAN, stage # "new",
         stage = "ephemeral" => asked, CheckDraft(d, Resolved(d, asked))
  PROVE  \A k \in DOMAIN AllConstraints(prompt) : CheckConstraint(d, AllConstraints(prompt)[k])
<1> PICK all : all = AllConstraints(prompt)
  OBVIOUS
<1> PICK c : c = CompileTaskContract(prompt)
  OBVIOUS
<1> SUFFICES ASSUME NEW k \in DOMAIN all PROVE CheckConstraint(d, all[k])
  OBVIOUS
<1>1. Demands(all, prompt)
  BY TextsAre, AllAre
<1>2. Compiled(c, prompt)
  BY TextsAre, CompiledIs
<1>3. all # <<>> /\ Len(all) <= ContractLimit
  BY DEF FitsContract
<1>4. k \in DOMAIN c /\ c[k] = all[k] /\ all[k] \in Constraints
  <2>1. k \in DOMAIN c /\ c[k] = all[k]
    BY <1>2, <1>3 DEF Compiled
  <2> QED BY <1>1, <2>1 DEF Demands
<1>5. TokenFree(all[k])
  <2>1. Wanting(prompt, all[k]) \/ Banning(prompt, all[k]) \/ Faulting(prompt, all[k])
    BY <1>1 DEF Demands
  <2> QED BY <2>1, TextsAre, FreeOfTokens DEF FitsContract
<1>6. Redacted(c[k]) = all[k]
  BY <1>4, <1>5, RedactedIs
<1>7. CASE stored # <<>>
  <2>1. stored = GetWorkflowRun(Persisted(prompt)) /\ StoredAs(stored, prompt)
    BY <1>7, TextsAre, KeptIs DEF ContractShape
  <2>2. k \in DOMAIN stored /\ stored[k] = all[k]
    BY <1>4, <1>6, <2>1 DEF StoredAs, FitsContract
  <2>3. Resolved(d, asked) = stored
    BY <1>7 DEF Resolved
  <2> QED BY <2>2, <2>3 DEF CheckDraft
<1>8. CASE stored = <<>>
  <2>1. stage = "ephemeral"
    <3>1. stage = "persisted" => stored # <<>>
      BY TextsAre, KeptIs DEF ContractShape, StoredAs, FitsContract
    <3> QED BY <1>8, <3>1 DEF ContractShape
  <2>2. Resolved(d, asked) = c
    BY <1>8, <2>1 DEF Resolved
  <2> QED BY <1>4, <2>2 DEF CheckDraft
<1> QED BY <1>7, <1>8

\* What it is to have some of a clause, and none.
LEMMA HitsOf ==
  ASSUME NEW terms \in TermLists, NEW d
  PROVE  /\ CheckConstraint(d, Constraint("must_include", terms)) <=>
              (Range(terms) \subseteq Held(d) \/ HitCount(d, terms) >= 2)
         /\ CheckConstraint(d, Constraint("must_not", terms)) <=>
              (Range(terms) \cap Held(d) = {} /\ NoneOf(d, "fake_success"))
<1> PICK held : held = Held(d)
  OBVIOUS
<1> PICK hit : hit = {i \in DOMAIN terms : terms[i] \in held}
  OBVIOUS
<1> PICK size : size = Len(terms)
  OBVIOUS
<1> PICK all : all = 1 .. size
  OBVIOUS
<1>1. /\ size \in Nat /\ DOMAIN terms = all /\ hit \in SUBSET all
      /\ IsFiniteSet(all) /\ Cardinality(all) = size
  <2>1. size \in Nat /\ DOMAIN terms = all
    BY DEF TermLists
  <2>2. 1 \in Int /\ size \in Int /\ (1 > size => size = 0) /\ size - 1 + 1 = size
    BY <2>1
  <2>3. IsFiniteSet(all) /\ Cardinality(all) = IF 1 > size THEN 0 ELSE size - 1 + 1
    BY <2>2, FS_Interval
  <2> QED BY <2>1, <2>2, <2>3
<1>2. HitCount(d, terms) = Cardinality(hit)
  BY DEF HitCount
<1>3. /\ Cardinality(hit) \in Nat /\ Cardinality(hit) <= size
      /\ (Cardinality(hit) = size <=> hit = all) /\ (Cardinality(hit) = 0 <=> hit = {})
  <2>1. IsFiniteSet(hit) /\ Cardinality(hit) <= size /\ (size = Cardinality(hit) => all = hit)
    BY <1>1, FS_Subset
  <2> QED BY <1>1, <2>1, FS_CardinalityType, FS_EmptySet
<1>4. (hit = all <=> Range(terms) \subseteq held) /\ (hit = {} <=> Range(terms) \cap held = {})
  BY <1>1 DEF Range
<1>5. CheckConstraint(d, Constraint("must_include", terms)) <=> Cardinality(hit) >= (IF size < 2 THEN size ELSE 2)
  BY <1>2 DEF CheckConstraint, Constraint, Few
<1>6. CheckConstraint(d, Constraint("must_not", terms)) <=> (Cardinality(hit) = 0 /\ NoneOf(d, "fake_success"))
  BY <1>2 DEF CheckConstraint, Constraint
<1>7. Cardinality(hit) >= (IF size < 2 THEN size ELSE 2) <=> (Cardinality(hit) = size \/ Cardinality(hit) >= 2)
  BY <1>1, <1>3
<1> QED BY <1>2, <1>3, <1>4, <1>5, <1>6, <1>7

\* A clause within the limits is as a whole what its constraint holds a draft against.
LEMMA WholeClause ==
  ASSUME NEW t \in Text, FitsContract(t), NEW i \in DOMAIN t.clauses
  PROVE  LET terms == TermsOf[t.clauses[i].value]
         IN /\ terms \in TermLists /\ ClauseTerms(t, i) = Range(terms)
            /\ BannedOf(t.clauses[i].value) = terms
            /\ t.clauses[i].wording # "must avoid" => WantedOf(Said(t, i)) = terms
<1>1. t.clauses[i].rest = {} /\ Len(TermsOf[t.clauses[i].value]) <= TermLimit
  BY DEF FitsContract
<1>2. t.clauses[i].value \in Values
  BY ClauseIs
<1>3. BannedOf(t.clauses[i].value) = TermsOf[t.clauses[i].value] /\ BannedOf(t.clauses[i].value) \in TermLists
  BY <1>1, <1>2, BannedIs DEF Selected
<1>4. t.clauses[i].wording # "must avoid" => WantedOf(Said(t, i)) = TermsOf[t.clauses[i].value]
  BY <1>1, PhraseIs DEF Selected
<1> QED BY <1>1, <1>3, <1>4 DEF ClauseTerms

LEMMA ContractShapeDone == ContractShape => DoneMeansWhatWasAsked
<1> SUFFICES ASSUME ContractShape, verdict = "DONE", FitsContract(prompt)
             PROVE  /\ \A i \in Worded(prompt, {"never", "must avoid", "must not"}) :
                         ~UsesWording(prompt, "must not") => Held(draft) \cap ClauseTerms(prompt, i) = {}
                    /\ \A i \in Worded(prompt, {"must"}) :
                         \/ ClauseTerms(prompt, i) \subseteq Held(draft)
                         \/ HitCount(draft, TermsOf[prompt.clauses[i].value]) >= 2
                    /\ \A i \in DOMAIN Further(prompt) : CheckConstraint(draft, Further(prompt)[i])
  BY DEF DoneMeansWhatWasAsked
<1> PICK all : all = AllConstraints(prompt)
  OBVIOUS
<1>1. \A k \in DOMAIN all : CheckConstraint(draft, all[k])
  <2>1. PICK asked \in BOOLEAN : (stage = "ephemeral" => asked) /\ CheckDraft(draft, Resolved(draft, asked))
    BY DEF ContractShape
  <2>2. stage # "new"
    BY DEF ContractShape
  <2> QED BY <2>1, <2>2, AllArePassed
<1>2. Demands(all, prompt) /\ Len(prompt.clauses) <= ClauseLimit
  BY TextsAre, AllAre DEF FitsContract
<1>3. prompt \in Text
  BY TextsAre
<1>4. ASSUME ~UsesWording(prompt, "must not"), NEW i \in Worded(prompt, {"never", "must avoid", "must not"})
      PROVE  Held(draft) \cap ClauseTerms(prompt, i) = {}
  <2>1. i \in DOMAIN prompt.clauses /\ i \in Worded(prompt, BannedBy)
    BY <1>4 DEF Worded, BannedBy, UsesWording
  <2>2. PICK k \in DOMAIN all : all[k] = Constraint("must_not", BannedOf(prompt.clauses[i].value))
    BY <1>2, <2>1 DEF Demands
  <2> PICK terms : terms = TermsOf[prompt.clauses[i].value]
    OBVIOUS
  <2>3. terms \in TermLists /\ ClauseTerms(prompt, i) = Range(terms) /\ BannedOf(prompt.clauses[i].value) = terms
    BY <1>3, <2>1, WholeClause
  <2>4. CheckConstraint(draft, Constraint("must_not", terms))
    BY <1>1, <2>2, <2>3
  <2> QED BY <2>3, <2>4, HitsOf
<1>5. ASSUME NEW i \in Worded(prompt, {"must"})
      PROVE  \/ ClauseTerms(prompt, i) \subseteq Held(draft)
             \/ HitCount(draft, TermsOf[prompt.clauses[i].value]) >= 2
  <2>1. i \in DOMAIN prompt.clauses /\ prompt.clauses[i].wording = "must" /\ i \in Worded(prompt, WantedBy)
    BY DEF Worded, WantedBy
  <2>2. PICK k \in DOMAIN all : all[k] = Constraint("must_include", WantedOf(Said(prompt, i)))
    BY <1>2, <2>1 DEF Demands
  <2> PICK terms : terms = TermsOf[prompt.clauses[i].value]
    OBVIOUS
  <2>3. terms \in TermLists /\ ClauseTerms(prompt, i) = Range(terms) /\ WantedOf(Said(prompt, i)) = terms
    BY <1>3, <2>1, WholeClause
  <2>4. CheckConstraint(draft, Constraint("must_include", terms))
    BY <1>1, <2>2, <2>3
  <2> QED BY <2>3, <2>4, HitsOf
<1>6. ASSUME NEW i \in DOMAIN Further(prompt) PROVE CheckConstraint(draft, Further(prompt)[i])
  <2>1. PICK k \in DOMAIN all : all[k] = Further(prompt)[i]
    BY <1>2 DEF Demands
  <2> QED BY <1>1, <2>1
<1> QED BY <1>4, <1>5, <1>6

\* A draft is done only if it does what the prompt asked for, for all prompts within
\* the limits and without credentials, all drafts, and runs that are stored or not
\* (compile_task_contract, record_workflow_run, check_draft).
THEOREM DoneIsAsked == ContractSpec => []DoneMeansWhatWasAsked
<1> QED BY ContractInitShape, ContractShapeNext, ContractShapeDone, PTL DEF ContractSpec

-----------------------------------------------------------------------------
(* An obedient draft.                                                      *)

\* A draft that does what a text says passes what is compiled of it.
LEMMA ObedientPasses ==
  ASSUME NEW t \in Text, ~UsesWording(t, "must avoid"), ~UsesWording(t, "must not"), NEW d, Obeys(d, t)
  PROVE  \A n \in DOMAIN CompileTaskContract(t) : CheckConstraint(d, CompileTaskContract(t)[n])
<1> PICK all : all = AllConstraints(t)
  OBVIOUS
<1> PICK c : c = CompileTaskContract(t)
  OBVIOUS
<1> SUFFICES ASSUME NEW n \in DOMAIN c PROVE CheckConstraint(d, c[n])
  OBVIOUS
<1>1. Compiled(c, t)
  BY CompiledIs
<1>2. Demands(all, t)
  BY AllAre
<1>3. CASE all = <<>>
  <2>1. c[n] = Constraint("must_include", t.goal)
    BY <1>1, <1>3 DEF Compiled
  <2>2. t.goal \in Seq(Terms) /\ Terms \subseteq Terms \cup {Avoid, Marker}
    BY DEF Text
  <2>3. t.goal \in TermLists
    BY <2>2, SeqMonotonic DEF TermLists
  <2>4. Range(t.goal) \subseteq Held(d)
    BY <1>3 DEF Obeys
  <2> QED BY <2>1, <2>3, <2>4, HitsOf
<1>4. CASE all # <<>>
  <2>1. n \in DOMAIN all /\ c[n] = all[n]
    BY <1>1, <1>4 DEF Compiled
  <2>2. CASE Wanting(t, all[n])
    <3>1. PICK i \in Worded(t, WantedBy) : all[n] = Constraint("must_include", WantedOf(Said(t, i)))
      BY <2>2 DEF Wanting
    <3>2. i \in DOMAIN t.clauses /\ t.clauses[i].wording = "must" /\ i \in Worded(t, {"must"})
      BY DEF Worded, WantedBy, UsesWording
    <3>3. Range(TermsOf[t.clauses[i].value]) \subseteq Held(d)
      BY <3>2 DEF Obeys, ClauseTerms
    <3> PICK terms : terms = WantedOf(Said(t, i))
      OBVIOUS
    <3>4. terms \in TermLists /\ Range(terms) \subseteq Range(TermsOf[t.clauses[i].value])
      BY <3>2, PhraseIs DEF Selected
    <3>5. CheckConstraint(d, Constraint("must_include", terms))
      BY <3>3, <3>4, HitsOf
    <3> QED BY <2>1, <3>1, <3>5
  <2>3. CASE Banning(t, all[n])
    <3>1. PICK i \in Worded(t, BannedBy) : all[n] = Constraint("must_not", BannedOf(t.clauses[i].value))
      BY <2>3 DEF Banning
    <3>2. i \in DOMAIN t.clauses /\ i \in Worded(t, {"never"})
      BY DEF Worded, BannedBy, UsesWording
    <3>3. Range(TermsOf[t.clauses[i].value]) \cap Held(d) = {} /\ NoneOf(d, "fake_success")
      BY <3>2 DEF Obeys, ClauseTerms
    <3> PICK terms : terms = BannedOf(t.clauses[i].value)
      OBVIOUS
    <3>4. terms \in TermLists /\ Range(terms) \subseteq Range(TermsOf[t.clauses[i].value])
      BY <3>2, ClauseIs, BannedIs DEF Selected
    <3>5. CheckConstraint(d, Constraint("must_not", terms))
      BY <3>3, <3>4, HitsOf
    <3> QED BY <2>1, <3>1, <3>5
  <2>4. CASE Faulting(t, all[n])
    <3>1. PICK k \in DOMAIN Further(t) : all[n] = Further(t)[k]
      BY <2>4 DEF Faulting
    <3> QED BY <2>1, <3>1 DEF Obeys
  <2> QED BY <1>2, <2>1, <2>2, <2>3, <2>4 DEF Demands
<1> QED BY <1>3, <1>4

\* In a text without tokens, nothing of its contract is redacted.
LEMMA NothingRedacted ==
  ASSUME NEW t \in Text, WithoutTokens(t), NEW c, c = CompileTaskContract(t), NEW n \in DOMAIN c
  PROVE  Redacted(c[n]) = c[n]
<1>1. Compiled(c, t) /\ Demands(AllConstraints(t), t)
  BY CompiledIs, AllAre
<1>2. c[n] \in Constraints
  <2>1. c \in Seq(Constraints) /\ DOMAIN c = 1 .. Len(c)
    BY <1>1 DEF Compiled
  <2> QED BY <2>1, ElementOfSeq
<1>3. CASE AllConstraints(t) = <<>>
  <2>1. c[n] = Constraint("must_include", t.goal)
    BY <1>1, <1>3 DEF Compiled
  <2>2. \A i \in DOMAIN t.goal : t.goal[i] \notin Tokens
    BY DEF WithoutTokens, Range
  <2>3. c[n].terms = t.goal
    BY <2>1 DEF Constraint
  <2>4. TokenFree(c[n])
    BY <2>2, <2>3 DEF TokenFree
  <2> QED BY <1>2, <2>4, RedactedIs
<1>4. CASE AllConstraints(t) # <<>>
  <2>1. Wanting(t, c[n]) \/ Banning(t, c[n]) \/ Faulting(t, c[n])
    BY <1>1, <1>4 DEF Compiled, Demands
  <2> QED BY <1>2, <2>1, FreeOfTokens, RedactedIs
<1> QED BY <1>3, <1>4

LEMMA ContractShapeObedient == ContractShape => ObedientDraftsPass
<1> SUFFICES ASSUME ContractShape, stage # "new", WithoutTokens(prompt),
                    ~UsesWording(prompt, "must avoid"), ~UsesWording(prompt, "must not"),
                    NEW d \in Drafts, Obeys(d, prompt)
             PROVE  CheckDraft(d, Resolved(prompt, TRUE))
  BY Zenon DEF ObedientDraftsPass
<1> PICK c : c = CompileTaskContract(prompt)
  OBVIOUS
<1>1. prompt \in Text
  BY TextsAre
<1>2. \A n \in DOMAIN c : CheckConstraint(d, c[n])
  BY <1>1, ObedientPasses
<1>3. \A n \in DOMAIN c : Redacted(c[n]) = c[n]
  BY <1>1, Zenon, NothingRedacted
<1>4. CASE stored # <<>>
  <2>1. stored = GetWorkflowRun(Persisted(prompt)) /\ StoredAs(stored, prompt)
    BY <1>1, <1>4, KeptIs DEF ContractShape
  <2>2. \A n \in DOMAIN stored : n \in DOMAIN c /\ stored[n] = c[n]
    BY <1>3, <1>4, <2>1 DEF StoredAs
  <2>3. Resolved(prompt, TRUE) = stored
    BY <1>4 DEF Resolved
  <2> QED BY <1>2, <2>2, <2>3 DEF CheckDraft
<1>5. CASE stored = <<>>
  <2>1. Resolved(prompt, TRUE) = c
    BY <1>5 DEF Resolved
  <2> QED BY <1>2, <2>1 DEF CheckDraft
<1> QED BY <1>4, <1>5

\* A draft that does what its prompt says passes whatever has become of the prompt, for
\* all prompts that do not say "must avoid" or "must not" and hold no token, also when
\* the limits have dropped a part of the contract or the store has torn it
\* (compile_task_contract, _resolve_contract).
THEOREM ObedienceIsEnough == ContractSpec => []ObedientDraftsPass
<1> QED BY ContractInitShape, ContractShapeNext, ContractShapeObedient, PTL DEF ContractSpec

-----------------------------------------------------------------------------
(* GroundedAnswer.                                                         *)

Quotes == WebPages \X Spans
CitedDrafts == Citations \cup {NoCitation}
Verifications == [check : Checks \cup {"none"}, draft : CitedDrafts, stage : {"idle", "search", "read"},
                  left : Seq(WebPages), quotes : Seq(Quotes)]
Findings == [check : Checks \cup {"none"}, status : {"NONE", "PASS", "FAIL", "UNKNOWN"},
             draft : CitedDrafts, quotes : Seq(Quotes)]

\* A finding that passes: its quotes are from two pages, and they bear out its draft.
BornOut(f) ==
  f.status = "PASS" =>
    /\ ~Degraded(f.quotes)
    /\ f.check = "grounding" =>
         f.draft.urls \subseteq QuotedPages(f.quotes) /\ f.draft.found \subseteq {q[2] : q \in Range(f.quotes)}

\* What is quoted has been read by the verification under way, or by the last one.
GroundedShape ==
  /\ web \in [WebPages -> SUBSET Spans] /\ texts \subseteq Quotes
  /\ verify \in Verifications /\ Len(verify.left) <= SourceLimit
  /\ finding \in Findings /\ Len(finding.quotes) <= QuoteLimit
  /\ verifies \in 0 .. MaxVerifies /\ pageChanges \in 0 .. MaxPageChanges
  /\ Range(verify.quotes) \subseteq texts
  /\ verify.stage = "idle" => Range(finding.quotes) \subseteq texts
  /\ BornOut(finding)

LEMMA BoundsOfGrounded ==
  /\ SourceLimit \in Nat /\ SpanLimit \in Nat /\ QuoteLimit \in Nat /\ CharBudget \in Nat
  /\ MaxVerifies \in Nat /\ MaxPageChanges \in Nat
  BY GroundedAssumption

LEMMA RangeIs == ASSUME NEW S, NEW s \in Seq(S) PROVE Range(s) \subseteq S /\ \A x : x \in Range(s) <=> \E i \in 1 .. Len(s) : x = s[i]
  BY DEF Range

LEMMA NothingQuoted == <<>> \in Seq(Quotes) /\ <<>> \in Seq(WebPages) /\ Len(<<>>) = 0 /\ Range(<<>>) = {}
<1>1. <<>> \in Seq(Quotes) /\ <<>> \in Seq(WebPages) /\ Len(<<>>) = 0
  BY EmptySeq
<1>2. \A x : x \notin 1 .. Len(<<>>)
  BY <1>1
<1>3. \A x : x \notin Range(<<>>)
  BY <1>1, <1>2, RangeIs
<1> QED BY <1>1, <1>3

LEMMA GroundedInitShape == GroundedInit => GroundedShape
<1> SUFFICES ASSUME GroundedInit PROVE GroundedShape
  OBVIOUS
<1>1. web \in [WebPages -> SUBSET Spans]
  BY GroundedAssumption DEF GroundedInit
<1>2. verify \in Verifications /\ verify.left = <<>> /\ verify.quotes = <<>>
  BY NothingQuoted DEF GroundedInit, Unasked, Verifications, CitedDrafts
<1>3. finding \in Findings /\ finding.status = "NONE" /\ finding.quotes = <<>>
  BY NothingQuoted DEF GroundedInit, NoFinding, Unasked, Findings, CitedDrafts
<1>4. verifies \in 0 .. MaxVerifies /\ pageChanges \in 0 .. MaxPageChanges /\ texts = {}
  BY BoundsOfGrounded DEF GroundedInit
<1>5. BornOut(finding)
  BY <1>3 DEF BornOut
<1> QED BY <1>1, <1>2, <1>3, <1>4, <1>5, NothingQuoted, BoundsOfGrounded DEF GroundedShape

\* A place in the lists of the engines and the turn it is taken in.
LEMMA LaterTurn == ASSUME NEW l \in Nat, NEW i \in Nat, NEW j \in Nat, i < j PROVE i * l + l <= j * l
<1>1. (j - i - 1) * l >= 0
  <2>1. j - i - 1 \in Nat
    OBVIOUS
  <2>2. \A a, b \in Nat : a * b \in Nat
    OBVIOUS
  <2> QED BY <2>1, <2>2
<1>2. (j - i - 1) * l = j * l - i * l - l
  OBVIOUS
<1> QED BY <1>1, <1>2

SameTurn(r, q, l) ==
  r[2] \in Nat /\ q[2] \in Nat /\ r[1] \in 1 .. l /\ q[1] \in 1 .. l /\ r[2] * l + r[1] = q[2] * l + q[1]

LEMMA SameTurnIs ==
  ASSUME NEW r, NEW q, NEW l \in Nat, SameTurn(r, q, l)
  PROVE  r[2] = q[2] /\ r[1] = q[1]
<1> PICK i : i = r[2]
  OBVIOUS
<1> PICK e : e = r[1]
  OBVIOUS
<1> PICK j : j = q[2]
  OBVIOUS
<1> PICK f : f = q[1]
  OBVIOUS
<1>1. i \in Nat /\ j \in Nat /\ e \in 1 .. l /\ f \in 1 .. l /\ i * l + e = j * l + f
  BY DEF SameTurn
<1>2. i * l \in Nat /\ j * l \in Nat
  BY <1>1
<1> PICK a : a = i * l
  OBVIOUS
<1> PICK b : b = j * l
  OBVIOUS
<1>0. a \in Nat /\ b \in Nat /\ a + e = b + f
  BY <1>1, <1>2
<1>3. ~(i < j)
  <2>1. i < j => a + l <= b
    BY <1>1, LaterTurn
  <2> QED BY <1>0, <1>1, <2>1
<1>4. ~(j < i)
  <2>1. j < i => b + l <= a
    BY <1>1, LaterTurn
  <2> QED BY <1>0, <1>1, <2>1
<1>5. i = j
  BY <1>1, <1>3, <1>4
<1>6. e = f
  <2>1. a = b
    BY <1>5
  <2> QED BY <1>0, <1>1, <2>1
<1> QED BY <1>5, <1>6

LEMMA SourcesAre ==
  ASSUME NEW answers \in Seq(Seq(WebPages))
  PROVE  Sources(answers) \in Seq(WebPages) /\ Len(Sources(answers)) <= SourceLimit
<1> DEFINE results == UNION {{<<e, i>> : i \in DOMAIN answers[e]} : e \in DOMAIN answers}
           PageOf(r) == answers[r[1]][r[2]]
           Turn(r) == r[2] * Len(answers) + r[1]
           pages == {PageOf(r) : r \in results}
           Turns(p) == {Turn(r) : r \in {q \in results : PageOf(q) = p}}
           key == [p \in pages |-> Min(Turns(p))]
<1> PICK found : found = Sources(answers)
  OBVIOUS
<1>1. found = ByKey(key, SourceLimit)
  BY Zenon DEF Sources
<1>2. \A r \in results : /\ r[1] \in 1 .. Len(answers) /\ r[2] \in Nat
                         /\ PageOf(r) \in WebPages /\ Turn(r) \in Nat /\ r = <<r[1], r[2]>>
  <2> SUFFICES ASSUME NEW e \in DOMAIN answers, NEW i \in DOMAIN answers[e]
               PROVE  e \in 1 .. Len(answers) /\ i \in Nat /\ answers[e][i] \in WebPages /\ i * Len(answers) + e \in Nat
    OBVIOUS
  <2>1. e \in 1 .. Len(answers) /\ Len(answers) \in Nat
    OBVIOUS
  <2>2. answers[e] \in Seq(WebPages)
    BY <2>1
  <2>3. i \in 1 .. Len(answers[e]) /\ Len(answers[e]) \in Nat
    BY <2>2
  <2>4. answers[e][i] \in WebPages
    BY <2>2, <2>3
  <2>5. \A a, b \in Nat : a * b \in Nat
    OBVIOUS
  <2>6. i \in Nat /\ i * Len(answers) \in Nat
    BY <2>1, <2>3, <2>5
  <2> QED BY <2>1, <2>4, <2>6
<1>3. \A r, q \in results : Turn(r) = Turn(q) => r = q
  <2> SUFFICES ASSUME NEW r \in results, NEW q \in results, Turn(r) = Turn(q) PROVE r = q
    OBVIOUS
  <2>1. Len(answers) \in Nat
    OBVIOUS
  <2>2. r[1] \in 1 .. Len(answers) /\ q[1] \in 1 .. Len(answers) /\ r[2] \in Nat /\ q[2] \in Nat
        /\ r = <<r[1], r[2]>> /\ q = <<q[1], q[2]>>
    BY <1>2
  <2> HIDE DEF results
  <2>3. r[2] * Len(answers) + r[1] = q[2] * Len(answers) + q[1]
    BY Zenon
  <2> HIDE DEF Turn
  <2>4. Len(answers) \in Nat /\ r[2] \in Nat /\ q[2] \in Nat /\ r[1] \in 1 .. Len(answers) /\ q[1] \in 1 .. Len(answers)
    BY <2>1, <2>2, Zenon
  <2>5. SameTurn(r, q, Len(answers))
    BY <2>3, <2>4, Zenon DEF SameTurn
  <2>6. r[2] = q[2] /\ r[1] = q[1]
    BY <2>1, <2>5, SameTurnIs
  <2> QED BY <2>2, <2>6
<1> HIDE DEF results, PageOf, Turn
<1>4. \A p \in pages : \E r \in results : PageOf(r) = p /\ Min(Turns(p)) = Turn(r) /\ Turn(r) \in Nat
  <2> SUFFICES ASSUME NEW p \in pages
               PROVE  \E r \in results : PageOf(r) = p /\ Min(Turns(p)) = Turn(r) /\ Turn(r) \in Nat
    OBVIOUS
  <2>1. Turns(p) \in SUBSET Nat /\ Turns(p) # {}
    BY <1>2
  <2>2. Min(Turns(p)) \in Turns(p)
    <3> HIDE DEF Turns
    <3> QED BY <2>1, MinIsLeast
  <2> QED BY <1>2, <2>2
<1>5. pages \subseteq WebPages
  BY <1>2
<1>6. DOMAIN key = pages /\ \A p \in pages : key[p] = Min(Turns(p))
  OBVIOUS
<1> HIDE DEF key, Turns, pages
<1>7. IsKey(key)
  <2>1. IsFiniteSet(pages)
    BY <1>5, FS_Subset, GroundedAssumption
  <2>2. \A p \in pages : key[p] \in Nat
    BY <1>4, <1>6
  <2>3. \A p, q \in pages : key[p] = key[q] => p = q
    BY <1>3, <1>4, <1>6
  <2> QED BY <1>6, <2>1, <2>2, <2>3 DEF IsKey
<1>8. Selects(found, key, SourceLimit)
  BY <1>1, <1>7, ByKeyFacts, BoundsOfGrounded
<1>9. found \in Seq(pages) /\ Len(found) <= SourceLimit
  BY <1>6, <1>8 DEF Selects
<1> QED BY <1>5, <1>9, SeqMonotonic

LEMMA BestOfAre ==
  ASSUME NEW page \in WebPages, NEW text \in SUBSET Spans
  PROVE  BestOf(page, text) \in Seq({page} \X text) /\ BestOf(page, text) \in Seq(Quotes)
<1> DEFINE key == [s \in text |-> s]
           kept == ByKey(key, SpanLimit)
<1>1. BestOf(page, text) = [i \in DOMAIN kept |-> <<page, kept[i]>>]
  BY DEF BestOf
<1>2. IsFiniteSet(text) /\ \A s \in text : s \in Nat
  BY FS_Subset, GroundedAssumption
<1>3. DOMAIN key = text /\ \A s \in text : key[s] = s
  OBVIOUS
<1> HIDE DEF key
<1>4. IsKey(key)
  BY <1>2, <1>3 DEF IsKey
<1>5. Len(kept) \in Nat /\ DOMAIN kept = 1 .. Len(kept) /\ \A n \in 1 .. Len(kept) : kept[n] \in text
  <2>1. Selects(kept, key, SpanLimit)
    BY <1>4, ByKeyFacts, BoundsOfGrounded
  <2> HIDE DEF kept
  <2> QED BY <1>3, <2>1 DEF Selects
<1> HIDE DEF kept
<1>6. BestOf(page, text) \in [1 .. Len(kept) -> {page} \X text]
  BY <1>1, <1>5
<1>7. BestOf(page, text) \in Seq({page} \X text)
  BY <1>5, <1>6
<1>8. {page} \X text \subseteq Quotes
  BY DEF Quotes
<1> QED BY <1>7, <1>8, SeqMonotonic

\* What a prefix holds.
LEMMA PrefixIs ==
  ASSUME NEW S, NEW s \in Seq(S), NEW top \in 0 .. Len(s)
  PROVE  /\ SubSeq(s, 1, top) \in Seq(S) /\ Len(SubSeq(s, 1, top)) = top
         /\ Range(SubSeq(s, 1, top)) \subseteq Range(s)
<1> PICK cut : cut = SubSeq(s, 1, top)
  OBVIOUS
<1>1. Len(s) \in Nat /\ top \in Int /\ 1 \in Int /\ (IF 1 <= top THEN top - 1 + 1 ELSE 0) = top /\ top - 1 + 1 = top
  OBVIOUS
<1>2. \A i \in 1 .. top : i \in 1 .. Len(s) /\ 1 + i - 1 = i /\ s[i] \in S
  BY <1>1
<1>3. /\ cut \in Seq(S)
      /\ Len(cut) = IF 1 <= top THEN top - 1 + 1 ELSE 0
      /\ \A i \in 1 .. top - 1 + 1 : cut[i] = s[1 + i - 1]
  BY <1>1, <1>2, SubSeqProperties
<1>4. cut \in Seq(S) /\ Len(cut) = top /\ \A i \in 1 .. top : cut[i] = s[i] /\ i \in 1 .. Len(s)
  BY <1>1, <1>2, <1>3
<1>5. \A x : x \in Range(cut) => \E i \in 1 .. Len(cut) : x = cut[i]
  BY <1>4, RangeIs
<1>6. \A i \in 1 .. Len(s) : s[i] \in Range(s)
  BY RangeIs
<1> QED BY <1>4, <1>5, <1>6

\* The quotes that the budget leaves are the first ones.
LEMMA TruncatedAre ==
  ASSUME NEW quotes \in Seq(Quotes)
  PROVE  /\ Truncated(quotes) \in Seq(Quotes) /\ Len(Truncated(quotes)) <= QuoteLimit
         /\ Range(Truncated(quotes)) \subseteq Range(quotes)
<1> DEFINE fitting == {n \in 0 .. Len(quotes) : Fits(SubSeq(quotes, 1, n))}
           key == [n \in 0 .. Len(quotes) |-> n]
<1> PICK top : top = Max(fitting)
  OBVIOUS
<1>1. Len(quotes) \in Nat
  OBVIOUS
<1>2. Fits(<<>>)
  <2> DEFINE chars == UNION {{i} \X (1 .. Length[(<<>>)[i][2]]) : i \in DOMAIN <<>>}
  <2>1. chars = {}
    <3>1. DOMAIN <<>> = 1 .. Len(<<>>)
      BY EmptySeq, LenProperties
    <3>2. \A i : i \notin DOMAIN <<>>
      BY <3>1, NothingQuoted
    <3> QED BY <3>2
  <2>2. Fits(<<>>) <=> Len(<<>>) <= QuoteLimit /\ Cardinality(chars) <= CharBudget
    BY Zenon DEF Fits
  <2> HIDE DEF chars
  <2>3. Cardinality(chars) = 0
    BY <2>1, FS_EmptySet
  <2> QED BY <2>2, <2>3, NothingQuoted, BoundsOfGrounded
<1>3. 0 \in fitting
  <2>1. SubSeq(quotes, 1, 0) = <<>>
    BY SubSeqEmpty
  <2>2. Fits(SubSeq(quotes, 1, 0))
    BY <1>2, <2>1, Zenon
  <2>3. 0 \in 0 .. Len(quotes)
    BY <1>1
  <2> QED BY <2>2, <2>3
<1>4. IsKey(key)
  <2>1. IsFiniteSet(0 .. Len(quotes))
    <3>1. 0 \in Int /\ Len(quotes) \in Int
      BY <1>1
    <3> QED BY <3>1, FS_Interval
  <2>2. DOMAIN key = 0 .. Len(quotes) /\ \A n \in 0 .. Len(quotes) : key[n] = n /\ n \in Nat
    BY <1>1
  <2> HIDE DEF key
  <2> QED BY <2>1, <2>2 DEF IsKey
<1>5. \E x \in fitting : \A y \in fitting : y <= x
  <2>1. fitting \in SUBSET DOMAIN key /\ fitting # {}
    BY <1>3
  <2>2. \A n \in fitting : key[n] = n
    OBVIOUS
  <2> HIDE DEF key, fitting
  <2>3. \E x \in fitting : \A y \in fitting : key[y] <= key[x]
    BY <1>4, <2>1, GreatestKey
  <2> QED BY <2>2, <2>3
<1>6. top \in fitting
  <2>1. fitting \subseteq Nat
    BY <1>1
  <2> HIDE DEF fitting
  <2>2. \E x \in fitting : \A y \in fitting : x >= y
    BY <1>5, <2>1
  <2> QED BY <2>2 DEF Max
<1>7. Truncated(quotes) = SubSeq(quotes, 1, top)
  BY DEF Truncated
<1>8. top \in 0 .. Len(quotes) /\ Fits(SubSeq(quotes, 1, top))
  BY <1>6
<1>9. /\ SubSeq(quotes, 1, top) \in Seq(Quotes)
      /\ Range(SubSeq(quotes, 1, top)) \subseteq Range(quotes)
  BY <1>8, PrefixIs
<1>10. Len(SubSeq(quotes, 1, top)) <= QuoteLimit
  BY <1>8 DEF Fits
<1> QED BY <1>7, <1>9, <1>10

LEMMA RangeOfConcat ==
  ASSUME NEW S, NEW s \in Seq(S), NEW u \in Seq(S)
  PROVE  s \o u \in Seq(S) /\ Range(s \o u) \subseteq Range(s) \cup Range(u)
<1>1. /\ s \o u \in Seq(S) /\ Len(s \o u) = Len(s) + Len(u)
      /\ \A i \in 1 .. Len(s) + Len(u) : (s \o u)[i] = IF i <= Len(s) THEN s[i] ELSE u[i - Len(s)]
  BY ConcatProperties
<1>2. Len(s) \in Nat /\ Len(u) \in Nat
  OBVIOUS
<1>3. ASSUME NEW i \in 1 .. Len(s) + Len(u) PROVE (s \o u)[i] \in Range(s) \cup Range(u)
  <2>1. CASE i <= Len(s)
    <3>1. i \in 1 .. Len(s) /\ (s \o u)[i] = s[i]
      BY <1>1, <1>2, <2>1
    <3> QED BY <3>1, RangeIs
  <2>2. CASE ~(i <= Len(s))
    <3>1. i - Len(s) \in 1 .. Len(u) /\ (s \o u)[i] = u[i - Len(s)]
      BY <1>1, <1>2, <2>2
    <3> QED BY <3>1, RangeIs
  <2> QED BY <2>1, <2>2
<1>4. \A x : x \in Range(s \o u) => \E i \in 1 .. Len(s \o u) : x = (s \o u)[i]
  BY <1>1, RangeIs
<1> QED BY <1>1, <1>3, <1>4

LEMMA GroundedShapeNext == GroundedShape /\ [GroundedNext]_groundedVars => GroundedShape'
<1> SUFFICES ASSUME GroundedShape, [GroundedNext]_groundedVars PROVE GroundedShape'
  OBVIOUS
<1>0. verify \in Verifications /\ Len(verify.left) <= SourceLimit /\ finding \in Findings
  BY DEF GroundedShape
<1>1. ASSUME NEW check \in Checks, NEW cited \in Citations \cup {NoCitation}, BeginVerify(check, cited)
      PROVE  GroundedShape'
  <2>1. /\ verify' = [Unasked EXCEPT !.check = check, !.draft = cited, !.stage = "search"]
        /\ texts' = {} /\ verifies < MaxVerifies /\ verifies' = verifies + 1
        /\ UNCHANGED <<web, finding, pageChanges>>
    BY <1>1 DEF BeginVerify
  <2>2. verify' = [check |-> check, draft |-> cited, stage |-> "search", left |-> <<>>, quotes |-> <<>>]
    BY <2>1 DEF Unasked
  <2>3. verify' \in Verifications /\ verify'.stage = "search" /\ verify'.left = <<>> /\ verify'.quotes = <<>>
    BY <2>2, NothingQuoted DEF Verifications, CitedDrafts
  <2>4. verifies' \in 0 .. MaxVerifies
    BY <2>1, BoundsOfGrounded DEF GroundedShape
  <2>5. Range(verify'.quotes) \subseteq texts' /\ Len(verify'.left) <= SourceLimit
    BY <2>3, NothingQuoted, BoundsOfGrounded
  <2>6. BornOut(finding')
    BY <2>1 DEF GroundedShape
  <2> QED BY <2>1, <2>3, <2>4, <2>5, <2>6 DEF GroundedShape
<1>2. ASSUME NEW failed \in SUBSET DOMAIN Index, Search(failed) PROVE GroundedShape'
  <2> DEFINE answers == [e \in DOMAIN Index |-> IF e \in failed THEN <<>> ELSE Index[e]]
  <2>1. /\ verify' = [verify EXCEPT !.stage = "read", !.left = Sources(answers)]
        /\ UNCHANGED <<web, texts, finding, verifies, pageChanges>>
    BY <1>2 DEF Search
  <2>2. answers \in Seq(Seq(WebPages))
    <3>1. Index \in Seq(Seq(WebPages)) /\ Len(Index) \in Nat /\ DOMAIN Index = 1 .. Len(Index)
      BY GroundedAssumption
    <3>2. answers \in [1 .. Len(Index) -> Seq(WebPages)]
      BY <3>1, NothingQuoted
    <3> QED BY <3>1, <3>2
  <2> HIDE DEF answers
  <2> PICK sources : sources = Sources(answers)
    OBVIOUS
  <2>3. sources \in Seq(WebPages) /\ Len(sources) <= SourceLimit
    BY <2>2, SourcesAre
  <2>4. /\ verify' \in Verifications /\ verify'.stage = "read"
        /\ verify'.left = sources /\ verify'.quotes = verify.quotes
    BY <1>0, <2>1, <2>3 DEF Verifications
  <2> QED BY <2>1, <2>3, <2>4 DEF GroundedShape
<1>3. CASE SearchTimeout
  <2>1. /\ verify' = [verify EXCEPT !.stage = "read", !.left = <<>>]
        /\ UNCHANGED <<web, texts, finding, verifies, pageChanges>>
    BY <1>3 DEF SearchTimeout
  <2>2. /\ verify' \in Verifications /\ verify'.stage = "read"
        /\ verify'.left = <<>> /\ verify'.quotes = verify.quotes
    BY <1>0, <2>1, NothingQuoted DEF Verifications
  <2>3. Len(verify'.left) <= SourceLimit
    BY <2>2, NothingQuoted, BoundsOfGrounded
  <2> QED BY <2>1, <2>2, <2>3 DEF GroundedShape
<1>4. ASSUME ReadPage \/ PageUnreadable PROVE verify.stage = "read" /\ verify.left # <<>>
  BY <1>4 DEF ReadPage, PageUnreadable
<1>5. ASSUME verify.left # <<>>
      PROVE  /\ Head(verify.left) \in WebPages
             /\ Tail(verify.left) \in Seq(WebPages) /\ Len(Tail(verify.left)) <= SourceLimit
  <2>1. verify.left \in Seq(WebPages) /\ Len(verify.left) \in Nat
    BY <1>0 DEF Verifications
  <2>2. /\ Head(verify.left) \in WebPages /\ Tail(verify.left) \in Seq(WebPages)
        /\ Len(Tail(verify.left)) = Len(verify.left) - 1
    BY <1>5, <2>1, HeadTailProperties
  <2>3. Len(verify.left) - 1 <= SourceLimit
    BY <1>0, <2>1, BoundsOfGrounded
  <2> QED BY <2>2, <2>3
<1>6. CASE ReadPage
  <2> PICK page : page = Head(verify.left)
    OBVIOUS
  <2> PICK best : best = BestOf(page, web[page])
    OBVIOUS
  <2>1. /\ verify' = [verify EXCEPT !.left = Tail(@), !.quotes = @ \o best]
        /\ texts' = texts \cup ({page} \X web[page])
        /\ UNCHANGED <<web, finding, verifies, pageChanges>>
    BY <1>6 DEF ReadPage
  <2>2. /\ page \in WebPages /\ Tail(verify.left) \in Seq(WebPages) /\ Len(Tail(verify.left)) <= SourceLimit
        /\ verify.stage = "read"
    BY <1>4, <1>5, <1>6
  <2>3. web[page] \in SUBSET Spans
    BY <2>2 DEF GroundedShape
  <2>4. best \in Seq({page} \X web[page]) /\ best \in Seq(Quotes)
    BY <2>2, <2>3, BestOfAre
  <2> PICK longer : longer = verify.quotes \o best
    OBVIOUS
  <2>5. verify.quotes \in Seq(Quotes) /\ longer \in Seq(Quotes) /\ Range(longer) \subseteq Range(verify.quotes) \cup Range(best)
    <3>1. verify.quotes \in Seq(Quotes)
      BY <1>0 DEF Verifications
    <3> QED BY <2>4, <3>1, RangeOfConcat
  <2>6. Range(best) \subseteq {page} \X web[page]
    BY <2>4, RangeIs
  <2>7. Range(longer) \subseteq texts'
    BY <2>1, <2>5, <2>6 DEF GroundedShape
  <2>8. /\ verify' \in Verifications /\ verify'.stage = "read"
        /\ verify'.left = Tail(verify.left) /\ verify'.quotes = longer
    BY <1>0, <2>1, <2>2, <2>5 DEF Verifications
  <2>9. texts' \subseteq Quotes
    BY <2>1, <2>2, <2>3 DEF GroundedShape, Quotes
  <2> QED BY <2>1, <2>2, <2>7, <2>8, <2>9 DEF GroundedShape
<1>7. CASE PageUnreadable
  <2>1. /\ verify' = [verify EXCEPT !.left = Tail(@)]
        /\ UNCHANGED <<web, texts, finding, verifies, pageChanges>>
    BY <1>7 DEF PageUnreadable
  <2>2. Tail(verify.left) \in Seq(WebPages) /\ Len(Tail(verify.left)) <= SourceLimit /\ verify.stage = "read"
    BY <1>4, <1>5, <1>7
  <2>3. /\ verify' \in Verifications /\ verify'.stage = "read"
        /\ verify'.left = Tail(verify.left) /\ verify'.quotes = verify.quotes
    BY <1>0, <2>1, <2>2 DEF Verifications
  <2> QED BY <2>1, <2>2, <2>3 DEF GroundedShape
<1>8. CASE Conclude
  <2> PICK quotes : quotes = Truncated(verify.quotes)
    OBVIOUS
  <2> PICK status : status = IF verify.check = "evidence" THEN EvidenceStatus(quotes)
                             ELSE GroundingStatus(verify.draft, quotes)
    OBVIOUS
  <2>1. /\ finding' = [check |-> verify.check, draft |-> verify.draft, quotes |-> quotes, status |-> status]
        /\ verify' = Unasked /\ UNCHANGED <<web, texts, verifies, pageChanges>>
    BY <1>8 DEF Conclude
  <2>2. verify.quotes \in Seq(Quotes) /\ verify.check \in Checks \cup {"none"} /\ verify.draft \in CitedDrafts
    BY <1>0 DEF Verifications
  <2>3. quotes \in Seq(Quotes) /\ Len(quotes) <= QuoteLimit /\ Range(quotes) \subseteq Range(verify.quotes)
    BY <2>2, TruncatedAre
  <2>4. status \in {"PASS", "FAIL", "UNKNOWN"}
    BY DEF EvidenceStatus, GroundingStatus
  <2>5. finding' \in Findings /\ finding'.quotes = quotes
    BY <2>1, <2>2, <2>3, <2>4 DEF Findings
  <2>6. verify' \in Verifications /\ verify'.left = <<>> /\ verify'.quotes = <<>>
    BY <2>1, NothingQuoted DEF Unasked, Verifications, CitedDrafts
  <2>7. Range(verify'.quotes) \subseteq texts' /\ Len(verify'.left) <= SourceLimit
    BY <2>6, NothingQuoted, BoundsOfGrounded
  <2>8. Range(finding'.quotes) \subseteq texts'
    BY <2>1, <2>3, <2>5 DEF GroundedShape
  <2>9. BornOut(finding')
    <3>1. ASSUME status = "PASS"
          PROVE  /\ ~Degraded(quotes)
                 /\ verify.check = "grounding" => /\ verify.draft.urls \subseteq QuotedPages(quotes)
                                                  /\ verify.draft.found \subseteq {q[2] : q \in Range(quotes)}
      <4>1. CASE verify.check = "evidence"
        BY <3>1, <4>1 DEF EvidenceStatus
      <4>2. CASE verify.check # "evidence"
        BY <3>1, <4>2 DEF GroundingStatus
      <4> QED BY <4>1, <4>2
    <3>2. finding'.status = status /\ finding'.check = verify.check /\ finding'.draft = verify.draft
      BY <2>1
    <3> QED BY <2>5, <3>1, <3>2 DEF BornOut
  <2> QED BY <2>1, <2>3, <2>5, <2>6, <2>7, <2>8, <2>9 DEF GroundedShape
<1>9. ASSUME NEW page \in WebPages, NEW text \in SUBSET Spans, PageChanges(page, text) PROVE GroundedShape'
  <2>1. /\ web' = [web EXCEPT ![page] = text] /\ pageChanges < MaxPageChanges
        /\ pageChanges' = pageChanges + 1 /\ UNCHANGED <<verify, texts, finding, verifies>>
    BY <1>9 DEF PageChanges
  <2>2. web' \in [WebPages -> SUBSET Spans]
    BY <2>1 DEF GroundedShape
  <2>3. pageChanges' \in 0 .. MaxPageChanges
    BY <2>1, BoundsOfGrounded DEF GroundedShape
  <2> QED BY <2>1, <2>2, <2>3 DEF GroundedShape
<1>10. CASE UNCHANGED groundedVars
  BY <1>10 DEF groundedVars, GroundedShape
<1> QED BY <1>1, <1>2, <1>3, <1>6, <1>7, <1>8, <1>9, <1>10 DEF GroundedNext

\* Two pages are two: a set of at least two elements has two that differ.
LEMMA TwoOf ==
  ASSUME NEW S, IsFiniteSet(S), ~(Cardinality(S) < 2)
  PROVE  \E p, q \in S : p # q
<1>1. Cardinality(S) # 0 /\ Cardinality(S) # 1
  BY FS_CardinalityType
<1>2. PICK p : p \in S
  BY <1>1, FS_EmptySet
<1>3. S # {p}
  BY <1>1, FS_Singleton
<1> QED BY <1>2, <1>3

LEMMA GroundedShapePass == GroundedShape => PassMeansRead
<1> SUFFICES ASSUME GroundedShape, finding.status = "PASS", verify.stage = "idle"
             PROVE  /\ \E p, q \in WebPages : p # q /\ {p, q} \subseteq {t[1] : t \in texts}
                    /\ Range(finding.quotes) \subseteq texts
                    /\ finding.check = "grounding" =>
                         /\ finding.draft.urls \subseteq {t[1] : t \in texts}
                         /\ finding.draft.spans \subseteq Pairable => finding.draft.spans \subseteq {t[2] : t \in texts}
  BY DEF PassMeansRead
<1> PICK pages : pages = QuotedPages(finding.quotes)
  OBVIOUS
<1>1. Range(finding.quotes) \subseteq texts /\ texts \subseteq Quotes
  BY DEF GroundedShape
<1>2. /\ ~(Cardinality(pages) < 2)
      /\ finding.check = "grounding" => /\ finding.draft.urls \subseteq pages
                                        /\ finding.draft.found \subseteq {q[2] : q \in Range(finding.quotes)}
  BY DEF GroundedShape, BornOut, Degraded
<1>3. pages \subseteq {t[1] : t \in texts}
  BY <1>1 DEF QuotedPages
<1>4. \A t \in texts : t[1] \in WebPages
  BY <1>1 DEF Quotes
<1>5. pages \subseteq WebPages
  BY <1>3, <1>4
<1>6. IsFiniteSet(pages)
  BY <1>5, FS_Subset, GroundedAssumption
<1>7. PICK p \in pages, r \in pages : p # r
  BY <1>2, <1>6, TwoOf
<1>8. \E a, b \in WebPages : a # b /\ {a, b} \subseteq {t[1] : t \in texts}
  BY <1>3, <1>5, <1>7
<1>9. {q[2] : q \in Range(finding.quotes)} \subseteq {t[2] : t \in texts}
  BY <1>1
<1>10. finding.draft.spans \subseteq Pairable => finding.draft.found = finding.draft.spans
  <2>1. finding.draft \in CitedDrafts
    BY DEF GroundedShape, Findings
  <2>2. NoCitation.found = NoCitation.spans
    BY DEF NoCitation
  <2> QED BY <2>1, <2>2, GroundedAssumption DEF CitedDrafts
<1> QED BY <1>1, <1>2, <1>3, <1>8, <1>9, <1>10

LEMMA GroundedShapeType == GroundedShape => GroundedTypeOK
<1> SUFFICES ASSUME GroundedShape PROVE GroundedTypeOK
  OBVIOUS
<1>1. verify \in Verifications /\ finding \in Findings
  BY DEF GroundedShape
<1> QED BY <1>1 DEF GroundedShape, GroundedTypeOK, Verifications, Findings, Quotes

\* No more pages are left to read than SourceLimit, and no more quotes are answered than
\* QuoteLimit, whatever the engines list (search_and_triangulate, _truncate_quotes).
THEOREM GroundedTypeCorrect == GroundedSpec => []GroundedTypeOK
<1> QED BY GroundedInitShape, GroundedShapeNext, GroundedShapeType, PTL DEF GroundedSpec

\* What passes has been read: two pages at least, by that very verification, and all
\* that the draft cites, and quotes in quotations that can be found, for any pages,
\* engines, limits and failures
\* (GroundingVerifier, EvidenceVerifier).
THEOREM PassesMeanRead == GroundedSpec => []PassMeansRead
<1> QED BY GroundedInitShape, GroundedShapeNext, GroundedShapePass, PTL DEF GroundedSpec

-----------------------------------------------------------------------------
(* MistakeRecall: the pool.                                                *)

RecallNumbers ==
  /\ RankOffset \in Nat /\ ShowLimit \in Nat /\ JudgeAfter \in Nat /\ NeutralBelow \in Nat
  /\ FloorPercent \in Nat /\ BoostPercent \in Nat /\ AdjustPercent \in Nat
  /\ MaxEvents \in Nat /\ MaxResolutions \in Nat

LEMMA RecallNumbersHold ==
  /\ RecallNumbers /\ JudgeAfter > 0 /\ FloorPercent >= 1 /\ FloorPercent <= BoostPercent /\ BoostPercent <= 100
  BY RecallAssumption DEF RecallNumbers

Band == BoostPercent - FloorPercent

\* What is left of a mistake's last turn to eligible, and of its last turn to retired,
\* when of n outcomes a have prevented something and d were reported since.
StillBoosted(a, n, d) == 100 * a + 100 * d > BoostPercent * n
StillRetired(a, n, d) == 100 * a - BoostPercent * n < 100 * d - Band * JudgeAfter
Enough(d) == 100 * d > Band * JudgeAfter

\* How the outcomes of a mistake change when one is reported.
OneReport(a, n, b, m) ==
  \/ m = n /\ b >= a - 1 /\ b <= a + 1
  \/ m = n + 1 /\ b >= a /\ b <= a + 1

\* Products and their factors.
LEMMA ProductGrows ==
  ASSUME NEW c \in Nat, NEW x \in Nat, NEW y \in Nat, x <= y
  PROVE  c * x <= c * y
<1>1. PICK d \in Nat : y = x + d
  <2>1. y - x \in Nat /\ y = x + (y - x)
    OBVIOUS
  <2> QED BY <2>1
<1>2. c * y = c * x + c * d /\ c * d \in Nat /\ c * x \in Nat
  BY <1>1
<1> QED BY <1>2

\* The band between the floor and the threshold, of the outcomes that are judged.
LEMMA BandProduct ==
  /\ Band \in Nat /\ Band < 100 /\ Band * JudgeAfter \in Nat
  /\ Band * JudgeAfter < 100 * JudgeAfter
<1>1. Band \in Nat /\ Band <= 99
  BY RecallNumbersHold DEF RecallNumbers, Band
<1>2. JudgeAfter \in Nat /\ JudgeAfter > 0
  BY RecallNumbersHold DEF RecallNumbers
<1>3. JudgeAfter * Band <= JudgeAfter * 99
  BY <1>1, <1>2, ProductGrows
<1>4. Band * JudgeAfter = JudgeAfter * Band /\ Band * JudgeAfter \in Nat
  BY <1>1, <1>2
<1> QED BY <1>1, <1>2, <1>3, <1>4

\* A person's turn is as old as it need be.
LEMMA EnoughSincePerson ==
  ASSUME NEW r \in Nat
  PROVE  Enough(r - (-JudgeAfter))
<1>1. JudgeAfter \in Nat
  BY RecallNumbersHold DEF RecallNumbers
<1>2. PICK k : k = Band * JudgeAfter
  OBVIOUS
<1>3. k \in Nat /\ k < 100 * JudgeAfter
  BY <1>2, BandProduct
<1>4. 100 * (r - (-JudgeAfter)) > k
  BY <1>1, <1>3
<1> QED BY <1>2, <1>4 DEF Enough

\* What a pass finds of a mistake it retires, and in the next lemma of one it boosts: when
\* the last turn was the other way, enough was reported since.
LEMMA RetireFacts ==
  ASSUME NEW a \in Nat, NEW n \in Nat, NEW d \in Int, n >= JudgeAfter, 100 * a < FloorPercent * n
  PROVE  /\ StillRetired(a, n, 0)
         /\ StillBoosted(a, n, d) => Enough(d)
<1>1. JudgeAfter \in Nat /\ BoostPercent \in Nat /\ FloorPercent \in Nat
  BY RecallNumbersHold DEF RecallNumbers
<1>2. Band * JudgeAfter <= Band * n
  BY <1>1, BandProduct, ProductGrows
<1>3. Band * n = BoostPercent * n - FloorPercent * n
  BY <1>1 DEF Band
<1>4. PICK k \in Nat : k = Band * JudgeAfter
  BY BandProduct
<1>5. PICK f \in Int : f = FloorPercent * n
  BY <1>1
<1>6. PICK b \in Int : b = BoostPercent * n
  BY <1>1
<1>7. k <= b - f /\ 100 * a < f
  BY <1>2, <1>3, <1>4, <1>5, <1>6
<1>8. StillRetired(a, n, 0)
  <2>1. 100 * a - b < 100 * 0 - k
    BY <1>7
  <2> QED BY <2>1, <1>4, <1>6 DEF StillRetired
<1>9. ASSUME StillBoosted(a, n, d) PROVE Enough(d)
  <2>1. 100 * a + 100 * d > b
    BY <1>6, <1>9 DEF StillBoosted
  <2>2. 100 * d > k
    BY <2>1, <1>7
  <2> QED BY <2>2, <1>4 DEF Enough
<1> QED BY <1>8, <1>9

LEMMA BoostFacts ==
  ASSUME NEW a \in Nat, NEW n \in Nat, NEW d \in Int, 100 * a > BoostPercent * n
  PROVE  /\ StillBoosted(a, n, 0)
         /\ StillRetired(a, n, d) => Enough(d)
<1>1. PICK b \in Int : b = BoostPercent * n
  BY RecallNumbersHold DEF RecallNumbers
<1>2. PICK k \in Nat : k = Band * JudgeAfter
  BY BandProduct
<1>3. StillBoosted(a, n, 0)
  <2>1. 100 * a + 100 * 0 > b
    BY <1>1
  <2> QED BY <2>1, <1>1 DEF StillBoosted
<1>4. ASSUME StillRetired(a, n, d) PROVE Enough(d)
  <2>1. 100 * a - b < 100 * d - k
    BY <1>1, <1>2, <1>4 DEF StillRetired
  <2>2. 100 * d > k
    BY <2>1, <1>1
  <2> QED BY <2>2, <1>2 DEF Enough
<1> QED BY <1>3, <1>4

\* One report more changes what is left of a turn by no more than a report.
LEMMA ReportKeeps ==
  ASSUME NEW a \in Nat, NEW n \in Nat, NEW b \in Nat, NEW m \in Nat, NEW d \in Int, OneReport(a, n, b, m)
  PROVE  /\ StillBoosted(a, n, d) => StillBoosted(b, m, d + 1)
         /\ StillRetired(a, n, d) => StillRetired(b, m, d + 1)
<1>1. BoostPercent \in Nat /\ BoostPercent <= 100
  BY RecallNumbersHold DEF RecallNumbers
<1>2. PICK x \in Int : x = BoostPercent * n
  BY <1>1
<1>3. PICK y \in Int : y = BoostPercent * m
  BY <1>1
<1>4. \/ y = x /\ b >= a - 1 /\ b <= a + 1
      \/ y = x + BoostPercent /\ b >= a /\ b <= a + 1
  <2>1. CASE m = n /\ b >= a - 1 /\ b <= a + 1
    BY <1>2, <1>3, <2>1
  <2>2. CASE m = n + 1 /\ b >= a /\ b <= a + 1
    <3>1. BoostPercent * m = BoostPercent * n + BoostPercent
      BY <1>1, <2>2
    <3> QED BY <1>2, <1>3, <2>2, <3>1
  <2> QED BY <2>1, <2>2 DEF OneReport
<1>5. PICK k \in Nat : k = Band * JudgeAfter
  BY BandProduct
<1>6. ASSUME StillBoosted(a, n, d) PROVE StillBoosted(b, m, d + 1)
  <2>1. 100 * a + 100 * d > x
    BY <1>2, <1>6 DEF StillBoosted
  <2>2. 100 * b + 100 * (d + 1) > y
    BY <1>1, <1>4, <2>1
  <2> QED BY <1>3, <2>2 DEF StillBoosted
<1>7. ASSUME StillRetired(a, n, d) PROVE StillRetired(b, m, d + 1)
  <2>1. 100 * a - x < 100 * d - k
    BY <1>2, <1>5, <1>7 DEF StillRetired
  <2>2. 100 * b - y < 100 * (d + 1) - k
    BY <1>1, <1>4, <2>1
  <2> QED BY <1>3, <1>5, <2>2 DEF StillRetired
<1> QED BY <1>6, <1>7

-----------------------------------------------------------------------------
(* MistakeRecall: outcomes.                                                *)

EventRow == [shown : SUBSET Mistakes, outcome : InjectionOutcomes]
Ranking(r) == r \in Seq(Mistakes)

\* The type invariant, with what TLC has no need to be told of.
RecallShape ==
  /\ RecallTypeOK
  /\ events \in Seq(EventRow)
  /\ rows \in [Optimizers -> SUBSET (Mistakes \X BOOLEAN \X (0 .. MaxResolutions))]

OfOutcome(outcome, p) == {i \in DOMAIN events : events[i].outcome = outcome /\ p \in events[i].shown}

LEMMA OutcomeSets ==
  ASSUME events \in Seq(EventRow), NEW p \in Mistakes
  PROVE  /\ IsFiniteSet(OfOutcome("prevented", p)) /\ IsFiniteSet(OfOutcome("recurred", p))
         /\ Prevented(p) = Cardinality(OfOutcome("prevented", p))
         /\ OutcomesOf(p) = Prevented(p) + Cardinality(OfOutcome("recurred", p))
         /\ Prevented(p) \in Nat /\ OutcomesOf(p) \in Nat /\ Cardinality(OfOutcome("recurred", p)) \in Nat
<1>1. Len(events) \in Nat /\ DOMAIN events = 1 .. Len(events)
  BY LenProperties
<1>2. IsFiniteSet(DOMAIN events)
  <2> DEFINE n == Len(events)
  <2>1. 1 \in Int /\ n \in Int
    BY <1>1
  <2> HIDE DEF n
  <2>2. IsFiniteSet(1 .. n)
    BY <2>1, FS_Interval
  <2> QED BY <1>1, <2>2 DEF n
<1>3. OfOutcome("prevented", p) \subseteq DOMAIN events /\ OfOutcome("recurred", p) \subseteq DOMAIN events
  BY DEF OfOutcome
<1>4. IsFiniteSet(OfOutcome("prevented", p)) /\ IsFiniteSet(OfOutcome("recurred", p))
  BY <1>2, <1>3, FS_Subset
<1>5. {i \in With("prevented") : p \in events[i].shown} = OfOutcome("prevented", p)
  BY DEF With, OfOutcome
<1>6. {i \in With("recurred") : p \in events[i].shown} = OfOutcome("recurred", p)
  BY DEF With, OfOutcome
<1>7. Prevented(p) = Cardinality(OfOutcome("prevented", p))
  BY <1>5 DEF Prevented
<1>8. OutcomesOf(p) = Prevented(p) + Cardinality(OfOutcome("recurred", p))
  BY <1>6 DEF OutcomesOf
<1>9. Cardinality(OfOutcome("prevented", p)) \in Nat /\ Cardinality(OfOutcome("recurred", p)) \in Nat
  BY <1>4, FS_CardinalityType
<1> QED BY <1>4, <1>7, <1>8, <1>9

\* A step that leaves the outcomes of a mistake leaves its counts.
LEMMA SameOutcomes ==
  ASSUME events \in Seq(EventRow), events' \in Seq(EventRow), NEW p \in Mistakes,
         OfOutcome("prevented", p)' = OfOutcome("prevented", p), OfOutcome("recurred", p)' = OfOutcome("recurred", p)
  PROVE  Prevented(p)' = Prevented(p) /\ OutcomesOf(p)' = OutcomesOf(p)
<1>1. Prevented(p)' = Cardinality(OfOutcome("prevented", p))' /\ OutcomesOf(p)' = Prevented(p)' + Cardinality(OfOutcome("recurred", p))'
  <2>1. {i \in With("prevented") : p \in events[i].shown} = OfOutcome("prevented", p)
    BY DEF With, OfOutcome
  <2>2. ({i \in With("prevented") : p \in events[i].shown})' = OfOutcome("prevented", p)'
    BY DEF With, OfOutcome
  <2>3. ({i \in With("recurred") : p \in events[i].shown})' = OfOutcome("recurred", p)'
    BY DEF With, OfOutcome
  <2> QED BY <2>2, <2>3 DEF Prevented, OutcomesOf
<1> QED BY <1>1, OutcomeSets

\* One outcome that is reported, in place of none or of another one.
LEMMA Recount ==
  ASSUME events \in Seq(EventRow), NEW i \in DOMAIN events, NEW outcome \in {"prevented", "recurred"},
         events' = [events EXCEPT ![i].outcome = outcome], NEW p \in Mistakes
  PROVE  /\ p \in events[i].shown => OneReport(Prevented(p), OutcomesOf(p), Prevented(p)', OutcomesOf(p)')
         /\ p \notin events[i].shown => Prevented(p)' = Prevented(p) /\ OutcomesOf(p)' = OutcomesOf(p)
<1> DEFINE P == OfOutcome("prevented", p)
           R == OfOutcome("recurred", p)
<1>1. /\ DOMAIN events' = DOMAIN events /\ events[i] \in EventRow
      /\ \A j \in DOMAIN events : events'[j].shown = events[j].shown
      /\ events'[i].outcome = outcome
      /\ \A j \in DOMAIN events \ {i} : events'[j].outcome = events[j].outcome
      /\ events' \in Seq(EventRow)
  <2>1. \A j \in DOMAIN events : events[j] \in EventRow
    BY ElementOfSeq, LenProperties
  <2>2. [events[i] EXCEPT !.outcome = outcome] \in EventRow
    BY <2>1 DEF EventRow, InjectionOutcomes
  <2>3. events' = [events EXCEPT ![i] = [events[i] EXCEPT !.outcome = outcome]]
    OBVIOUS
  <2>4. events' \in Seq(EventRow) /\ DOMAIN events' = DOMAIN events
    BY <2>2, <2>3, LenProperties, ExceptSeq
  <2> QED BY <2>1, <2>3, <2>4 DEF EventRow
<1>2. CASE p \notin events[i].shown
  <2>1. P' = P /\ R' = R
    BY <1>1, <1>2 DEF OfOutcome
  <2> QED BY <1>1, <1>2, <2>1, SameOutcomes
<1>3. CASE p \in events[i].shown
  <2>1. P' = (IF outcome = "prevented" THEN P \cup {i} ELSE P \ {i})
    BY <1>1, <1>3 DEF OfOutcome
  <2>2. R' = (IF outcome = "recurred" THEN R \cup {i} ELSE R \ {i})
    BY <1>1, <1>3 DEF OfOutcome
  <2>3. ~(i \in P /\ i \in R)
    BY DEF OfOutcome
  <2>4. /\ IsFiniteSet(P) /\ IsFiniteSet(R) /\ Cardinality(P) \in Nat /\ Cardinality(R) \in Nat
        /\ Prevented(p) = Cardinality(P) /\ OutcomesOf(p) = Cardinality(P) + Cardinality(R)
    BY OutcomeSets
  <2>5. Prevented(p)' = Cardinality(P') /\ OutcomesOf(p)' = Cardinality(P') + Cardinality(R')
    <3>1. ({j \in With("prevented") : p \in events[j].shown})' = P'
      BY DEF With, OfOutcome
    <3>2. ({j \in With("recurred") : p \in events[j].shown})' = R'
      BY DEF With, OfOutcome
    <3> QED BY <3>1, <3>2 DEF Prevented, OutcomesOf
  <2> HIDE DEF P, R
  <2>6. Cardinality(P \cup {i}) = (IF i \in P THEN Cardinality(P) ELSE Cardinality(P) + 1)
    BY <2>4, FS_AddElement
  <2>7. Cardinality(R \cup {i}) = (IF i \in R THEN Cardinality(R) ELSE Cardinality(R) + 1)
    BY <2>4, FS_AddElement
  <2>8. Cardinality(P \ {i}) = (IF i \in P THEN Cardinality(P) - 1 ELSE Cardinality(P))
    BY <2>4, FS_RemoveElement
  <2>9. Cardinality(R \ {i}) = (IF i \in R THEN Cardinality(R) - 1 ELSE Cardinality(R))
    BY <2>4, FS_RemoveElement
  <2>10. OneReport(Prevented(p), OutcomesOf(p), Prevented(p)', OutcomesOf(p)')
    <3>1. CASE outcome = "prevented"
      <4>1. P' = P \cup {i} /\ R' = R \ {i}
        BY <2>1, <2>2, <3>1
      <4> QED BY <4>1, <2>3, <2>4, <2>5, <2>6, <2>9 DEF OneReport
    <3>2. CASE outcome = "recurred"
      <4>1. P' = P \ {i} /\ R' = R \cup {i}
        BY <2>1, <2>2, <3>2
      <4> QED BY <4>1, <2>3, <2>4, <2>5, <2>7, <2>8 DEF OneReport
    <3> QED BY <3>1, <3>2
  <2> QED BY <1>3, <2>10
<1> QED BY <1>2, <1>3

\* A prompt that shows something adds an event without an outcome.
LEMMA ShowingCountsNothing ==
  ASSUME events \in Seq(EventRow), NEW shown_ \in SUBSET Mistakes,
         events' = events \/ events' = Append(events, [shown |-> shown_, outcome |-> "unknown"])
  PROVE  /\ events' \in Seq(EventRow)
         /\ \A p \in Mistakes : Prevented(p)' = Prevented(p) /\ OutcomesOf(p)' = OutcomesOf(p)
<1> DEFINE row == [shown |-> shown_, outcome |-> "unknown"]
<1>1. row \in EventRow
  BY DEF EventRow, InjectionOutcomes
<1>2. CASE events' = events
  <2>1. ASSUME NEW p \in Mistakes
        PROVE  OfOutcome("prevented", p)' = OfOutcome("prevented", p) /\ OfOutcome("recurred", p)' = OfOutcome("recurred", p)
    BY <1>2 DEF OfOutcome
  <2> QED BY <1>2, <2>1, SameOutcomes
<1>3. CASE events' = Append(events, row)
  <2>1. Len(events) \in Nat /\ DOMAIN events = 1 .. Len(events)
    BY LenProperties
  <2>2. /\ events' \in Seq(EventRow) /\ Len(events') = Len(events) + 1
        /\ \A j \in 1 .. Len(events) : events'[j] = events[j]
        /\ events'[Len(events) + 1] = row
    BY <1>1, <1>3, AppendProperties
  <2>3. DOMAIN events' = 1 .. Len(events) + 1
    BY <2>2, LenProperties
  <2>4. ASSUME NEW p \in Mistakes, NEW out \in {"prevented", "recurred"}
        PROVE  OfOutcome(out, p)' = OfOutcome(out, p)
    BY <2>1, <2>2, <2>3, <2>4 DEF OfOutcome
  <2> QED BY <2>2, <2>4, SameOutcomes
<1> QED BY <1>2, <1>3

-----------------------------------------------------------------------------
(* Fractions.                                                              *)

Fraction(s) == s \in Nat \X (Nat \ {0})
Above(s, t) == s[1] * t[2] > t[1] * s[2]
Level(s, t) == s[1] * t[2] = t[1] * s[2]

LEMMA ProductCancels ==
  ASSUME NEW c \in Nat, NEW x \in Nat, NEW y \in Nat
  PROVE  /\ c * x < c * y => x < y
         /\ c > 0 /\ x < y => c * x < c * y
         /\ c > 0 /\ c * x = c * y => x = y
<1>1. c * x < c * y => x < y
  <2>1. ~(x < y) => c * y <= c * x
    BY ProductGrows
  <2>2. c * x \in Nat /\ c * y \in Nat
    OBVIOUS
  <2> QED BY <2>1, <2>2
<1>2. c > 0 /\ x < y => c * x < c * y
  <2> SUFFICES ASSUME c > 0, x < y PROVE c * x < c * y
    OBVIOUS
  <2>1. c * (x + 1) <= c * y
    BY ProductGrows
  <2>2. c * (x + 1) = c * x + c /\ c * x \in Nat /\ c * y \in Nat
    OBVIOUS
  <2> QED BY <2>1, <2>2
<1>3. ASSUME NEW u \in Nat, NEW v \in Nat, u < v, c > 0 PROVE c * u < c * v
  <2>1. c * (u + 1) <= c * v
    BY <1>3, ProductGrows
  <2>2. c * (u + 1) = c * u + c /\ c * u \in Nat /\ c * v \in Nat
    OBVIOUS
  <2> QED BY <1>3, <2>1, <2>2
<1>4. c > 0 /\ c * x = c * y => x = y
  <2> SUFFICES ASSUME c > 0, c * x = c * y, x # y PROVE FALSE
    OBVIOUS
  <2>1. c * x \in Nat /\ c * y \in Nat
    OBVIOUS
  <2>2. CASE x < y
    BY <1>3, <2>1, <2>2
  <2>3. CASE y < x
    BY <1>3, <2>1, <2>3
  <2> QED BY <2>2, <2>3
<1> QED BY <1>1, <1>2, <1>4

LEMMA ProductSwaps ==
  ASSUME NEW a \in Nat, NEW b \in Nat, NEW c \in Nat, NEW d \in Nat
  PROVE  a * (b * c) = c * (b * a) /\ (a * b) * (c * d) = (b * d) * (a * c) /\ (a + b) * c = a * c + b * c
  OBVIOUS

LEMMA FractionIs ==
  ASSUME NEW s, Fraction(s)
  PROVE  s[1] \in Nat /\ s[2] \in Nat /\ s[2] > 0
  BY DEF Fraction

\* Fractions are ordered.
LEMMA AboveIsTransitive ==
  ASSUME NEW s, NEW t, NEW u, Fraction(s), Fraction(t), Fraction(u),
         Above(s, t) \/ Level(s, t), Above(t, u) \/ Level(t, u)
  PROVE  /\ Above(s, t) \/ Above(t, u) => Above(s, u)
         /\ Level(s, t) /\ Level(t, u) => Level(s, u)
<1>1. PICK a \in Nat, b \in Nat, c \in Nat, d \in Nat, e \in Nat, f \in Nat :
        /\ a = s[1] /\ b = s[2] /\ c = t[1] /\ d = t[2] /\ e = u[1] /\ f = u[2]
        /\ b > 0 /\ d > 0 /\ f > 0
  <2>1. s[1] \in Nat /\ s[2] \in Nat /\ s[2] > 0
    BY FractionIs
  <2>2. t[1] \in Nat /\ t[2] \in Nat /\ t[2] > 0
    BY FractionIs
  <2>3. u[1] \in Nat /\ u[2] \in Nat /\ u[2] > 0
    BY FractionIs
  <2> QED BY <2>1, <2>2, <2>3
<1>2. a * d >= c * b /\ c * f >= e * d
  BY <1>1 DEF Above, Level
<1>3. PICK ad \in Nat, cb \in Nat, cf \in Nat, ed \in Nat, af \in Nat, eb \in Nat :
        ad = a * d /\ cb = c * b /\ cf = c * f /\ ed = e * d /\ af = a * f /\ eb = e * b
  <2>1. a * d \in Nat /\ c * b \in Nat /\ c * f \in Nat /\ e * d \in Nat /\ a * f \in Nat /\ e * b \in Nat
    OBVIOUS
  <2> QED BY <2>1
<1>4. f * ad = d * af /\ f * cb = b * cf /\ b * ed = d * eb
  <2>1. f * ad = d * (a * f)
    BY <1>3, ProductSwaps
  <2>2. f * cb = b * (c * f)
    BY <1>3, ProductSwaps
  <2>3. b * ed = d * (e * b)
    BY <1>3, ProductSwaps
  <2> QED BY <1>3, <2>1, <2>2, <2>3
<1>5. PICK p \in Nat, q \in Nat, r \in Nat : p = d * af /\ q = b * cf /\ r = d * eb
  <2>1. d * af \in Nat /\ b * cf \in Nat /\ d * eb \in Nat
    OBVIOUS
  <2> QED BY <2>1
<1>6. ad > cb => p > q
  BY <1>1, <1>3, <1>4, <1>5, ProductCancels
<1>7. cf > ed => q > r
  BY <1>1, <1>3, <1>4, <1>5, ProductCancels
<1>8. ad = cb => p = q
  BY <1>3, <1>4, <1>5
<1>9. cf = ed => q = r
  <2>1. q = f * cb /\ q = b * cf /\ r = b * ed
    BY <1>4, <1>5
  <2> QED BY <2>1
<1>10. p > r => af > eb
  BY <1>5, ProductCancels
<1>11. p = r => af = eb
  BY <1>1, <1>5, ProductCancels
<1>12. ad >= cb /\ cf >= ed
  BY <1>2, <1>3
<1>13. /\ Above(s, t) <=> ad > cb
       /\ Above(t, u) <=> cf > ed
       /\ Above(s, u) <=> af > eb
       /\ Level(s, t) <=> ad = cb
       /\ Level(t, u) <=> cf = ed
       /\ Level(s, u) <=> af = eb
  BY <1>1, <1>3 DEF Above, Level
<1> QED BY <1>6, <1>7, <1>8, <1>9, <1>10, <1>11, <1>12, <1>13

LEMMA AboveIsTotal ==
  ASSUME NEW s, NEW t, Fraction(s), Fraction(t)
  PROVE  /\ Above(s, t) \/ Level(s, t) \/ Above(t, s)
         /\ ~(Above(s, t) /\ Above(t, s)) /\ ~(Above(s, t) /\ Level(s, t)) /\ ~(Above(s, t) /\ Level(t, s))
         /\ Level(s, t) => Level(t, s)
<1>1. PICK x \in Nat, y \in Nat : x = s[1] * t[2] /\ y = t[1] * s[2]
  <2>1. s[1] * t[2] \in Nat /\ t[1] * s[2] \in Nat
    BY FractionIs
  <2> QED BY <2>1
<1> QED BY <1>1 DEF Above, Level

Plus(s, t) == <<s[1] * t[2] + t[1] * s[2], s[2] * t[2]>>

LEMMA SumsMeet ==
  ASSUME NEW a \in Nat, NEW b \in Nat, NEW c \in Nat, NEW d \in Nat, NEW f \in Nat, NEW h \in Nat
  PROVE  (a * d + c * b) * (f * h) = (d * h) * (a * f) + (b * f) * (c * h)
  OBVIOUS

\* A sum grows with its terms.
LEMMA SumGrows ==
  ASSUME NEW s, NEW t, NEW x, NEW y, Fraction(s), Fraction(t), Fraction(x), Fraction(y),
         Above(s, x) \/ Level(s, x), Above(t, y) \/ Level(t, y), Above(s, x) \/ Above(t, y)
  PROVE  Above(Plus(s, t), Plus(x, y))
<1>1. PICK a \in Nat, b \in Nat, c \in Nat, d \in Nat, e \in Nat, f \in Nat, g \in Nat, h \in Nat :
        /\ a = s[1] /\ b = s[2] /\ c = t[1] /\ d = t[2]
        /\ e = x[1] /\ f = x[2] /\ g = y[1] /\ h = y[2]
        /\ b > 0 /\ d > 0 /\ f > 0 /\ h > 0
  <2>1. s[1] \in Nat /\ s[2] \in Nat /\ s[2] > 0
    BY FractionIs
  <2>2. t[1] \in Nat /\ t[2] \in Nat /\ t[2] > 0
    BY FractionIs
  <2>3. x[1] \in Nat /\ x[2] \in Nat /\ x[2] > 0
    BY FractionIs
  <2>4. y[1] \in Nat /\ y[2] \in Nat /\ y[2] > 0
    BY FractionIs
  <2> QED BY <2>1, <2>2, <2>3, <2>4
<1>2. PICK af \in Nat, eb \in Nat, ch \in Nat, gd \in Nat, dh \in Nat, bf \in Nat :
        af = a * f /\ eb = e * b /\ ch = c * h /\ gd = g * d /\ dh = d * h /\ bf = b * f
  <2>1. a * f \in Nat /\ e * b \in Nat /\ c * h \in Nat /\ g * d \in Nat /\ d * h \in Nat /\ b * f \in Nat
    OBVIOUS
  <2> QED BY <2>1
<1>3. dh > 0 /\ bf > 0
  <2>1. d * 0 < d * h /\ b * 0 < b * f
    BY <1>1, ProductCancels
  <2> QED BY <1>1, <1>2, <2>1
<1>4. /\ Above(s, x) <=> af > eb
      /\ Level(s, x) <=> af = eb
      /\ Above(t, y) <=> ch > gd
      /\ Level(t, y) <=> ch = gd
  BY <1>1, <1>2 DEF Above, Level
<1>5. PICK k \in Nat, l \in Nat, m \in Nat, n \in Nat :
        k = dh * af /\ l = dh * eb /\ m = bf * ch /\ n = bf * gd
  <2>1. dh * af \in Nat /\ dh * eb \in Nat /\ bf * ch \in Nat /\ bf * gd \in Nat
    OBVIOUS
  <2> QED BY <2>1
<1>6. k >= l /\ m >= n /\ (k > l \/ m > n)
  <2>1. af >= eb /\ ch >= gd /\ (af > eb \/ ch > gd)
    BY <1>4
  <2>2. af > eb => k > l
    BY <1>3, <1>5, ProductCancels
  <2>3. af = eb => k = l
    BY <1>5
  <2>4. ch > gd => m > n
    BY <1>3, <1>5, ProductCancels
  <2>5. ch = gd => m = n
    BY <1>5
  <2> QED BY <2>1, <2>2, <2>3, <2>4, <2>5
<1>7. Plus(s, t)[1] * Plus(x, y)[2] = k + m
  <2>1. Plus(s, t)[1] = a * d + c * b /\ Plus(x, y)[2] = f * h
    BY <1>1 DEF Plus
  <2>2. (a * d + c * b) * (f * h) = (d * h) * (a * f) + (b * f) * (c * h)
    BY SumsMeet
  <2> QED BY <1>2, <1>5, <2>1, <2>2
<1>8. Plus(x, y)[1] * Plus(s, t)[2] = l + n
  <2>1. Plus(x, y)[1] = e * h + g * f /\ Plus(s, t)[2] = b * d
    BY <1>1 DEF Plus
  <2>2. (e * h + g * f) * (d * b) = (h * d) * (e * b) + (f * b) * (g * d)
    BY SumsMeet
  <2>3. b * d = d * b /\ h * d = d * h /\ f * b = b * f
    OBVIOUS
  <2> QED BY <1>2, <1>5, <2>1, <2>2, <2>3
<1> QED BY <1>6, <1>7, <1>8 DEF Above

LEMMA SumIsFraction ==
  ASSUME NEW s, NEW t, Fraction(s), Fraction(t)
  PROVE  Fraction(Plus(s, t))
<1>1. PICK a \in Nat, b \in Nat, c \in Nat, d \in Nat :
        a = s[1] /\ b = s[2] /\ c = t[1] /\ d = t[2] /\ b > 0 /\ d > 0
  <2>1. s[1] \in Nat /\ s[2] \in Nat /\ s[2] > 0
    BY FractionIs
  <2>2. t[1] \in Nat /\ t[2] \in Nat /\ t[2] > 0
    BY FractionIs
  <2> QED BY <2>1, <2>2
<1>2. a * d + c * b \in Nat /\ b * d \in Nat
  BY <1>1
<1>3. b * 0 < b * d
  BY <1>1, ProductCancels
<1> QED BY <1>1, <1>2, <1>3 DEF Fraction, Plus

-----------------------------------------------------------------------------
(* MistakeRecall: hits.                                                    *)

\* What a ranking holds are mistakes, each at its rank.
LEMMA RangeOfRanking ==
  ASSUME NEW r \in Seq(Mistakes)
  PROVE  /\ Range(r) \subseteq Mistakes /\ IsFiniteSet(Range(r))
         /\ \A p : In(r, p) => RankIn(r, p) \in 1 .. Len(r) /\ r[RankIn(r, p)] = p
<1>1. DOMAIN r = 1 .. Len(r) /\ \A i \in 1 .. Len(r) : r[i] \in Mistakes
  BY LenProperties, ElementOfSeq
<1>2. Range(r) \subseteq Mistakes
  BY RangeIs
<1>3. IsFiniteSet(Range(r))
  BY <1>2, RecallAssumption, FS_Subset
<1>4. ASSUME NEW p, In(r, p) PROVE RankIn(r, p) \in 1 .. Len(r) /\ r[RankIn(r, p)] = p
  <2>1. \E i \in DOMAIN r : r[i] = p
    BY <1>1, <1>4, RangeIs DEF In
  <2> QED BY <1>1, <2>1 DEF RankIn
<1> QED BY <1>2, <1>3, <1>4

Rankings(words, vectors) == words \in Seq(Mistakes) /\ vectors \in Seq(Mistakes)
Hits(words, vectors) == Range(words) \cup Range(vectors)

\* Shares and scores are fractions.
LEMMA ShareIs ==
  ASSUME NEW w \in Nat \ {0}, NEW r \in Seq(Mistakes), NEW p
  PROVE  Fraction(Share(w, r, p))
<1>1. RankOffset \in Nat
  BY RecallNumbersHold DEF RecallNumbers
<1>2. CASE In(r, p)
  <2>1. Share(w, r, p) = <<w, RankOffset + RankIn(r, p)>> /\ RankIn(r, p) \in 1 .. Len(r) /\ Len(r) \in Nat
    BY <1>2, RangeOfRanking, LenProperties DEF Share
  <2>2. RankOffset + RankIn(r, p) \in Nat \ {0}
    BY <1>1, <2>1
  <2> QED BY <2>1, <2>2 DEF Fraction
<1>3. CASE ~In(r, p)
  BY <1>3 DEF Share, Fraction
<1> QED BY <1>2, <1>3

\* Who is ahead wherever the other was found has the greater share of that ranking,
\* and no smaller one of the other.
LEMMA ShareGrows ==
  ASSUME NEW w \in Nat \ {0}, NEW r \in Seq(Mistakes), NEW p, NEW q, In(r, q) => Ahead(r, p, q)
  PROVE  /\ In(r, q) => Above(Share(w, r, p), Share(w, r, q))
         /\ Above(Share(w, r, p), Share(w, r, q)) \/ Level(Share(w, r, p), Share(w, r, q))
<1>1. CASE In(r, q)
  <2>1. In(r, p) /\ RankIn(r, p) < RankIn(r, q)
    BY <1>1 DEF Ahead
  <2>2. PICK i \in Nat, j \in Nat : i = RankOffset + RankIn(r, p) /\ j = RankOffset + RankIn(r, q) /\ i < j
    <3>1. RankOffset \in Nat /\ RankIn(r, p) \in 1 .. Len(r) /\ RankIn(r, q) \in 1 .. Len(r) /\ Len(r) \in Nat
      BY <1>1, <2>1, RangeOfRanking, LenProperties, RecallNumbersHold DEF RecallNumbers
    <3> QED BY <2>1, <3>1
  <2>3. Share(w, r, p) = <<w, i>> /\ Share(w, r, q) = <<w, j>>
    BY <1>1, <2>1, <2>2 DEF Share
  <2>4. w * i < w * j
    BY <2>2, ProductCancels
  <2> QED BY <2>3, <2>4 DEF Above
<1>2. CASE ~In(r, q)
  <2>1. Share(w, r, q) = <<0, 1>>
    BY <1>2 DEF Share
  <2>2. Share(w, r, p)[1] \in Nat /\ Share(w, r, p)[2] \in Nat
    BY ShareIs, FractionIs
  <2>3. Share(w, r, p)[1] * 1 >= 0 * Share(w, r, p)[2]
    BY <2>2
  <2>4. Above(Share(w, r, p), Share(w, r, q)) \/ Level(Share(w, r, p), Share(w, r, q))
    BY <2>1, <2>2, <2>3 DEF Above, Level
  <2> QED BY <1>2, <2>4
<1> QED BY <1>1, <1>2

LEMMA WeightIs ==
  ASSUME NEW weight \in Weights
  PROVE  weight[1] \in Nat \ {0} /\ weight[2] \in Nat \ {0}
  BY RecallAssumption

LEMMA FusedScoreIs ==
  ASSUME NEW weight \in Weights, NEW words, NEW vectors, Rankings(words, vectors), NEW p
  PROVE  /\ FusedScore(weight, words, vectors, p) = Plus(Share(weight[1], words, p), Share(weight[2], vectors, p))
         /\ Fraction(FusedScore(weight, words, vectors, p))
<1>1. FusedScore(weight, words, vectors, p) = Plus(Share(weight[1], words, p), Share(weight[2], vectors, p))
  BY DEF FusedScore, Score, Plus
<1>2. Fraction(Share(weight[1], words, p)) /\ Fraction(Share(weight[2], vectors, p))
  BY WeightIs, ShareIs DEF Rankings
<1> QED BY <1>1, <1>2, SumIsFraction

\* No two hits arrive at once.
LEMMA ArrivalIs ==
  ASSUME NEW words, NEW vectors, Rankings(words, vectors), NEW p \in Hits(words, vectors)
  PROVE  /\ Arrival(words, vectors, p) \in Nat
         /\ \A q \in Hits(words, vectors) : Arrival(words, vectors, p) = Arrival(words, vectors, q) => p = q
<1>1. Len(words) \in Nat /\ Len(vectors) \in Nat
  BY LenProperties DEF Rankings
<1>2. ASSUME NEW x \in Hits(words, vectors), In(words, x)
      PROVE  Arrival(words, vectors, x) \in 1 .. Len(words) /\ words[Arrival(words, vectors, x)] = x
  BY <1>2, RangeOfRanking DEF Arrival, Rankings
<1>3. ASSUME NEW x \in Hits(words, vectors), ~In(words, x)
      PROVE  /\ Arrival(words, vectors, x) = Len(words) + RankIn(vectors, x)
             /\ RankIn(vectors, x) \in 1 .. Len(vectors) /\ vectors[RankIn(vectors, x)] = x
  <2>1. In(vectors, x)
    BY <1>3 DEF Hits, In
  <2> QED BY <1>3, <2>1, RangeOfRanking DEF Arrival, Rankings
<1>4. Arrival(words, vectors, p) \in Nat
  BY <1>1, <1>2, <1>3
<1>5. ASSUME NEW q \in Hits(words, vectors), Arrival(words, vectors, p) = Arrival(words, vectors, q)
      PROVE  p = q
  <2>1. CASE In(words, p) /\ In(words, q)
    BY <1>2, <1>5, <2>1
  <2>2. CASE ~In(words, p) /\ ~In(words, q)
    <3>1. RankIn(vectors, p) = RankIn(vectors, q)
      BY <1>1, <1>3, <1>5, <2>2
    <3> QED BY <1>3, <2>2, <3>1
  <2>3. CASE In(words, p) /\ ~In(words, q)
    BY <1>1, <1>2, <1>3, <1>5, <2>3
  <2>4. CASE ~In(words, p) /\ In(words, q)
    BY <1>1, <1>2, <1>3, <1>5, <2>4
  <2> QED BY <2>1, <2>2, <2>3, <2>4
<1> QED BY <1>4, <1>5

\* Of two hits one precedes the other.
LEMMA PrecedesOrders ==
  ASSUME NEW weight \in Weights, NEW words, NEW vectors, Rankings(words, vectors),
         NEW p \in Hits(words, vectors), NEW q \in Hits(words, vectors), NEW r \in Hits(words, vectors)
  PROVE  /\ ~Precedes(weight, words, vectors, p, p)
         /\ p # q => Precedes(weight, words, vectors, p, q) \/ Precedes(weight, words, vectors, q, p)
         /\ Precedes(weight, words, vectors, p, q) /\ Precedes(weight, words, vectors, q, r)
              => Precedes(weight, words, vectors, p, r)
<1> DEFINE F(x) == FusedScore(weight, words, vectors, x)
           A(x) == Arrival(words, vectors, x)
           Pre(x, y) == Precedes(weight, words, vectors, x, y)
<1>1. \A x, y : Pre(x, y) <=> Above(F(x), F(y)) \/ (Level(F(x), F(y)) /\ A(x) < A(y))
  BY DEF Precedes, Above, Level
<1>2. Fraction(F(p)) /\ Fraction(F(q)) /\ Fraction(F(r))
  BY FusedScoreIs
<1>3. A(p) \in Nat /\ A(q) \in Nat /\ A(r) \in Nat /\ (A(p) = A(q) => p = q)
  BY ArrivalIs
<1> HIDE DEF F, A, Pre
<1>4. ~Pre(p, p)
  <2>1. ~Above(F(p), F(p))
    BY <1>2, AboveIsTotal
  <2> QED BY <1>1, <1>3, <2>1
<1>5. p # q => Pre(p, q) \/ Pre(q, p)
  <2>1. Above(F(p), F(q)) \/ Level(F(p), F(q)) \/ Above(F(q), F(p))
    BY <1>2, AboveIsTotal
  <2>2. Level(F(p), F(q)) => Level(F(q), F(p))
    BY <1>2, AboveIsTotal
  <2> QED BY <1>1, <1>3, <2>1, <2>2
<1>6. Pre(p, q) /\ Pre(q, r) => Pre(p, r)
  <2> SUFFICES ASSUME Pre(p, q), Pre(q, r) PROVE Pre(p, r)
    OBVIOUS
  <2>1. Above(F(p), F(q)) \/ Level(F(p), F(q))
    BY <1>1
  <2>2. Above(F(q), F(r)) \/ Level(F(q), F(r))
    BY <1>1
  <2>3. /\ Above(F(p), F(q)) \/ Above(F(q), F(r)) => Above(F(p), F(r))
        /\ Level(F(p), F(q)) /\ Level(F(q), F(r)) => Level(F(p), F(r))
    BY <1>2, <2>1, <2>2, AboveIsTransitive
  <2>4. CASE Above(F(p), F(q)) \/ Above(F(q), F(r))
    BY <1>1, <2>3, <2>4
  <2>5. CASE ~(Above(F(p), F(q)) \/ Above(F(q), F(r)))
    <3>1. Level(F(p), F(q)) /\ A(p) < A(q) /\ Level(F(q), F(r)) /\ A(q) < A(r)
      BY <1>1, <2>5
    <3> QED BY <1>1, <1>3, <2>3, <3>1
  <2> QED BY <2>4, <2>5
<1> QED BY <1>4, <1>5, <1>6 DEF Pre

\* The hits before a hit: their number is the key of the fusion.
Leaders(weight, words, vectors, p) == {q \in Hits(words, vectors) : Precedes(weight, words, vectors, q, p)}
HitKey(weight, words, vectors) ==
  [p \in Hits(words, vectors) |-> Cardinality(Leaders(weight, words, vectors, p))]

\* The number of hits before a hit tells the hits apart, and grows along their order.
LEMMA HitKeyIs ==
  ASSUME NEW weight \in Weights, NEW words, NEW vectors, Rankings(words, vectors)
  PROVE  /\ IsKey(HitKey(weight, words, vectors)) /\ DOMAIN HitKey(weight, words, vectors) = Hits(words, vectors)
         /\ Hits(words, vectors) \subseteq Mistakes
         /\ \A p, q \in Hits(words, vectors) :
              Precedes(weight, words, vectors, p, q) => HitKey(weight, words, vectors)[p] < HitKey(weight, words, vectors)[q]
<1> DEFINE H == Hits(words, vectors)
           L(x) == Leaders(weight, words, vectors, x)
           Pre(x, y) == Precedes(weight, words, vectors, x, y)
           key == HitKey(weight, words, vectors)
<1>1. H \subseteq Mistakes /\ IsFiniteSet(H)
  <2>1. H \subseteq Mistakes
    BY RangeOfRanking DEF Hits, Rankings
  <2> QED BY <2>1, RecallAssumption, FS_Subset
<1>2. DOMAIN key = H /\ \A x \in H : key[x] = Cardinality(L(x))
  BY DEF HitKey
<1>3. \A x \in H : \A y : y \in L(x) <=> y \in H /\ Pre(y, x)
  BY DEF Leaders
<1>4. /\ \A x \in H : ~Pre(x, x)
      /\ \A x, y \in H : x # y => Pre(x, y) \/ Pre(y, x)
      /\ \A x, y, z \in H : Pre(x, y) /\ Pre(y, z) => Pre(x, z)
  BY PrecedesOrders
<1> HIDE DEF H, L, Pre, key
<1>5. \A x \in H : IsFiniteSet(L(x)) /\ Cardinality(L(x)) \in Nat
  <2> TAKE x \in H
  <2>1. L(x) \subseteq H
    BY <1>3
  <2> QED BY <1>1, <2>1, FS_Subset, FS_CardinalityType
<1>6. ASSUME NEW x \in H, NEW y \in H, Pre(x, y) PROVE key[x] < key[y]
  <2>1. L(x) \subseteq L(y)
    <3> SUFFICES ASSUME NEW z \in L(x) PROVE z \in L(y)
      OBVIOUS
    <3>1. z \in H /\ Pre(z, x)
      BY <1>3
    <3>2. Pre(z, y)
      BY <1>4, <1>6, <3>1
    <3> QED BY <1>3, <3>1, <3>2
  <2>2. x \in L(y) /\ x \notin L(x)
    BY <1>3, <1>4, <1>6
  <2>3. Cardinality(L(x)) <= Cardinality(L(y)) /\ Cardinality(L(x)) # Cardinality(L(y))
    BY <1>5, <2>1, <2>2, FS_Subset
  <2> QED BY <1>2, <1>5, <2>3
<1>7. IsKey(key)
  <2>1. \A x \in H : key[x] \in Nat
    BY <1>2, <1>5
  <2>2. ASSUME NEW x \in H, NEW y \in H, key[x] = key[y] PROVE x = y
    <3> SUFFICES ASSUME x # y PROVE FALSE
      OBVIOUS
    <3>1. Pre(x, y) \/ Pre(y, x)
      BY <1>4
    <3>2. key[x] < key[y] \/ key[y] < key[x]
      BY <1>6, <3>1
    <3> QED BY <2>1, <2>2, <3>2
  <2> QED BY <1>1, <1>2, <2>1, <2>2 DEF IsKey
<1> QED BY <1>1, <1>2, <1>6, <1>7 DEF H, Pre, key

\* The fusion holds hits, and before each hit every one that precedes it.
FusedWell(hits, weight, words, vectors) ==
  /\ hits \in Seq(Mistakes)
  /\ \A i \in DOMAIN hits : hits[i] \in Hits(words, vectors)
  /\ \A i \in DOMAIN hits, p \in Hits(words, vectors) :
       Precedes(weight, words, vectors, p, hits[i]) => \E j \in DOMAIN hits : j < i /\ hits[j] = p

LEMMA FusedIs ==
  ASSUME NEW weight \in Weights, NEW words, NEW vectors, Rankings(words, vectors)
  PROVE  FusedWell(Fused(weight, words, vectors), weight, words, vectors)
<1> PICK hits : hits = Fused(weight, words, vectors)
  OBVIOUS
<1> PICK key : key = HitKey(weight, words, vectors)
  OBVIOUS
<1>1. hits = ByKey(key, 2 * ShowLimit)
  BY DEF Fused, HitKey, Leaders, Hits
<1>2. IsKey(key) /\ DOMAIN key = Hits(words, vectors) /\ Hits(words, vectors) \subseteq Mistakes
  BY HitKeyIs
<1>3. 2 * ShowLimit \in Nat
  BY RecallNumbersHold DEF RecallNumbers
<1>4. Selects(hits, key, 2 * ShowLimit) /\ InOrder(hits, key)
  BY <1>1, <1>2, <1>3, ByKeyFacts, ByKeyOrder
<1>5. hits \in Seq(Hits(words, vectors)) /\ DOMAIN hits = 1 .. Len(hits) /\ Len(hits) \in Nat
      /\ \A i \in DOMAIN hits : hits[i] \in Hits(words, vectors)
  BY <1>2, <1>4 DEF Selects
<1>6. hits \in Seq(Mistakes)
  BY <1>2, <1>5
<1>7. ASSUME NEW i \in DOMAIN hits, NEW p \in Hits(words, vectors), Precedes(weight, words, vectors, p, hits[i])
      PROVE  \E j \in DOMAIN hits : j < i /\ hits[j] = p
  <2>1. key[p] < key[hits[i]]
    BY <1>5, <1>7, HitKeyIs
  <2> QED BY <1>2, <1>4, <2>1 DEF InOrder
<1> QED BY <1>5, <1>6, <1>7 DEF FusedWell

LEMMA TupleIsSeq ==
  ASSUME NEW S, NEW l \in Nat, NEW f \in [1 .. l -> S]
  PROVE  f \in Seq(S) /\ Len(f) = l
  OBVIOUS

\* What is shown: few of the hits, and for every hit before a picked one a mistake of
\* its root cause.
ChosenWell(picked, hits) ==
  /\ picked \in Seq(Mistakes) /\ Len(picked) <= ShowLimit
  /\ \A n \in DOMAIN picked : \E i \in DOMAIN hits :
       /\ picked[n] = hits[i]
       /\ \A j \in DOMAIN hits : j < i => \E m \in DOMAIN picked : Cause[picked[m]] = Cause[hits[j]]

LEMMA ChosenIs ==
  ASSUME NEW hits \in Seq(Mistakes)
  PROVE  ChosenWell(Chosen(hits), hits)
<1> DEFINE firsts == {i \in DOMAIN hits : \A j \in DOMAIN hits : j < i => Cause[hits[j]] # Cause[hits[i]]}
<1> PICK picked : picked = Chosen(hits)
  OBVIOUS
<1> PICK key : key = [i \in firsts |-> i]
  OBVIOUS
<1> PICK kept : kept = ByKey(key, ShowLimit)
  OBVIOUS
<1>1. picked = [n \in DOMAIN kept |-> hits[kept[n]]]
  BY DEF Chosen
<1>2. Len(hits) \in Nat /\ DOMAIN hits = 1 .. Len(hits) /\ \A i \in DOMAIN hits : hits[i] \in Mistakes
  BY LenProperties, ElementOfSeq
<1>3. firsts \subseteq DOMAIN hits /\ DOMAIN key = firsts /\ \A i \in firsts : key[i] = i
  OBVIOUS
<1>4. \A i \in firsts : \A j \in DOMAIN hits : j < i => Cause[hits[j]] # Cause[hits[i]]
  OBVIOUS
<1>5. \A i \in DOMAIN hits : (\A j \in DOMAIN hits : j < i => Cause[hits[j]] # Cause[hits[i]]) => i \in firsts
  OBVIOUS
<1> HIDE DEF firsts
<1>6. IsKey(key)
  <2>1. IsFiniteSet(DOMAIN hits)
    <3> DEFINE l == Len(hits)
    <3>1. 1 \in Int /\ l \in Int
      BY <1>2
    <3> HIDE DEF l
    <3>2. IsFiniteSet(1 .. l)
      BY <3>1, FS_Interval
    <3> QED BY <1>2, <3>2 DEF l
  <2>2. IsFiniteSet(firsts)
    BY <1>3, <2>1, FS_Subset
  <2> QED BY <1>2, <1>3, <2>2 DEF IsKey
<1>7. ShowLimit \in Nat
  BY RecallNumbersHold DEF RecallNumbers
<1>8. Selects(kept, key, ShowLimit) /\ InOrder(kept, key)
  BY <1>6, <1>7, ByKeyFacts, ByKeyOrder
<1>9. /\ Len(kept) \in Nat /\ DOMAIN kept = 1 .. Len(kept) /\ Len(kept) <= ShowLimit
      /\ \A n \in DOMAIN kept : kept[n] \in firsts
  BY <1>3, <1>8 DEF Selects
<1>10. DOMAIN picked = DOMAIN kept /\ \A n \in DOMAIN kept : picked[n] = hits[kept[n]] /\ picked[n] \in Mistakes
  BY <1>1, <1>2, <1>3, <1>9
<1>11. picked \in Seq(Mistakes) /\ Len(picked) <= ShowLimit
  <2>1. PICK l \in Nat : l = Len(kept)
    BY <1>9
  <2>2. picked \in [1 .. l -> Mistakes]
    BY <1>1, <1>9, <1>10, <2>1
  <2>3. picked \in Seq(Mistakes) /\ Len(picked) = l
    BY <2>2, TupleIsSeq
  <2> QED BY <1>9, <2>1, <2>3
<1>12. ASSUME NEW n \in DOMAIN picked, NEW j \in DOMAIN hits, j < kept[n]
       PROVE  \E m \in DOMAIN picked : Cause[picked[m]] = Cause[hits[j]]
  <2> DEFINE Same == {k \in DOMAIN hits : Cause[hits[k]] = Cause[hits[j]]}
  <2>1. Same \in SUBSET Nat /\ Same # {} /\ j \in Same
    BY <1>2
  <2>2. PICK f \in Same : \A k \in Same : f <= k
    BY <2>1, LeastNat
  <2>3. f \in DOMAIN hits /\ Cause[hits[f]] = Cause[hits[j]] /\ f <= j
    BY <2>1, <2>2
  <2>4. ASSUME NEW k \in DOMAIN hits, k < f PROVE Cause[hits[k]] # Cause[hits[f]]
    BY <1>2, <2>2, <2>3, <2>4
  <2>5. f \in firsts
    BY <1>5, <2>3, <2>4
  <2>6. kept[n] \in firsts /\ kept[n] \in DOMAIN hits
    BY <1>3, <1>9, <1>10
  <2>7. key[f] < key[kept[n]]
    BY <1>2, <1>3, <1>12, <2>3, <2>5, <2>6
  <2>8. PICK m \in DOMAIN kept : kept[m] = f
    <3>1. f \in DOMAIN key /\ n \in DOMAIN kept
      BY <1>3, <1>10, <2>5
    <3>2. \A i \in DOMAIN kept, x \in DOMAIN key : key[x] < key[kept[i]] => \E m \in DOMAIN kept : m < i /\ kept[m] = x
      BY <1>8 DEF InOrder
    <3> QED BY <2>7, <3>1, <3>2, Zenon
  <2> QED BY <1>10, <2>3, <2>8
<1>13. ASSUME NEW n \in DOMAIN picked
       PROVE  \E i \in DOMAIN hits :
                /\ picked[n] = hits[i]
                /\ \A j \in DOMAIN hits : j < i => \E m \in DOMAIN picked : Cause[picked[m]] = Cause[hits[j]]
  <2>1. kept[n] \in DOMAIN hits /\ picked[n] = hits[kept[n]]
    BY <1>3, <1>9, <1>10
  <2> QED BY <1>12, <2>1
<1>14. ChosenWell(picked, hits)
  BY <1>11, <1>13 DEF ChosenWell
<1> QED BY <1>14

\* What a search finds ranks mistakes.
LEMMA FoundInIs ==
  ASSUME NEW S \in SUBSET Mistakes, NEW s \in FoundIn(S)
  PROVE  s \in Seq(S)
<1>1. PICK c \in Nat : c = Cardinality(S)
  BY RecallAssumption, FS_Subset, FS_CardinalityType
<1>2. PICK t \in SetToSeqs(S) : s = SubSeq(t, 1, Min({Len(t), 6 * ShowLimit}))
  BY DEF FoundIn
<1>3. t \in [1 .. c -> S]
  BY <1>1, <1>2 DEF SetToSeqs
<1>4. t \in Seq(S) /\ Len(t) = c /\ \A i \in 1 .. c : t[i] \in S
  BY <1>3, TupleIsSeq
<1>5. PICK K \in SUBSET Nat : K = {Len(t), 6 * ShowLimit} /\ K # {} /\ c \in K
  <2>1. 6 * ShowLimit \in Nat
    BY RecallNumbersHold DEF RecallNumbers
  <2> QED BY <1>4, <2>1
<1>6. PICK m \in Nat : m = Min(K) /\ m <= c
  <2>1. Min(K) \in K /\ Min(K) <= c
    BY <1>5, MinIsLeast
  <2> QED BY <1>5, <2>1
<1>7. s = SubSeq(t, 1, m)
  BY <1>2, <1>5, <1>6, Zenon
<1>8. \A i \in 1 .. m : t[i] \in S
  BY <1>4, <1>6
<1> QED BY <1>7, <1>8, SubSeqProperties

LEMMA RankingsAre ==
  ASSUME NEW text, NEW words \in WordRankings(text), NEW vectors \in VectorRankings
  PROVE  Rankings(words, vectors) /\ vectors \in Seq(HasVector)
<1>1. HasVector \in SUBSET Mistakes
  BY RecallAssumption
<1>2. words \in Seq(Mistakes)
  <2>1. CASE words = <<>>
    BY <2>1, EmptySeq
  <2>2. CASE words \in FoundIn(WordMatches(text))
    <3>1. WordMatches(text) \in SUBSET Mistakes
      BY DEF WordMatches
    <3>2. words \in Seq(WordMatches(text))
      BY <2>2, <3>1, FoundInIs
    <3> QED BY <3>1, <3>2
  <2> QED BY <2>1, <2>2 DEF WordRankings
<1>3. vectors \in Seq(HasVector)
  <2>1. CASE vectors = <<>>
    BY <2>1, EmptySeq
  <2>2. CASE vectors \in FoundIn(HasVector)
    BY <1>1, <2>2, FoundInIs
  <2> QED BY <2>1, <2>2 DEF VectorRankings
<1>4. vectors \in Seq(Mistakes)
  BY <1>1, <1>3
<1> QED BY <1>2, <1>3, <1>4 DEF Rankings

\* Whoever is ahead wherever the other was found precedes it.
LEMMA AheadPrecedes ==
  ASSUME NEW weight \in Weights, NEW words, NEW vectors, Rankings(words, vectors),
         NEW p, NEW q \in Hits(words, vectors),
         \A ranking \in {words, vectors} : In(ranking, q) => Ahead(ranking, p, q)
  PROVE  p \in Hits(words, vectors) /\ Precedes(weight, words, vectors, p, q)
<1>1. In(words, q) => Ahead(words, p, q)
  OBVIOUS
<1>2. In(vectors, q) => Ahead(vectors, p, q)
  OBVIOUS
<1>3. In(words, q) \/ In(vectors, q)
  BY DEF Hits, In
<1>4. p \in Hits(words, vectors)
  BY <1>1, <1>2, <1>3 DEF Ahead, Hits, In
<1> DEFINE s == Share(weight[1], words, p)
           t == Share(weight[2], vectors, p)
           x == Share(weight[1], words, q)
           y == Share(weight[2], vectors, q)
<1>5. (In(words, q) => Above(s, x)) /\ (Above(s, x) \/ Level(s, x))
  BY <1>1, WeightIs, ShareGrows DEF Rankings
<1>6. (In(vectors, q) => Above(t, y)) /\ (Above(t, y) \/ Level(t, y))
  BY <1>2, WeightIs, ShareGrows DEF Rankings
<1>7. Fraction(s) /\ Fraction(t) /\ Fraction(x) /\ Fraction(y)
  BY WeightIs, ShareIs DEF Rankings
<1>8. FusedScore(weight, words, vectors, p) = Plus(s, t) /\ FusedScore(weight, words, vectors, q) = Plus(x, y)
  BY FusedScoreIs
<1> HIDE DEF s, t, x, y
<1>9. Above(Plus(s, t), Plus(x, y))
  BY <1>3, <1>5, <1>6, <1>7, SumGrows
<1>10. Precedes(weight, words, vectors, p, q)
  <2>1. Above(FusedScore(weight, words, vectors, p), FusedScore(weight, words, vectors, q))
    BY <1>8, <1>9
  <2> QED BY <2>1 DEF Precedes, Above
<1> QED BY <1>4, <1>10

BetterShown(words, vectors, picked) ==
  \A p \in Mistakes, q \in Range(picked) :
    (\A ranking \in {words, vectors} : In(ranking, q) => Ahead(ranking, p, q))
      => \E r \in Range(picked) : Cause[r] = Cause[p]

\* Fusing, keeping one of each root cause and cutting leave no better hit out.
LEMMA ChosenIsBetter ==
  ASSUME NEW weight \in Weights, NEW words, NEW vectors, Rankings(words, vectors)
  PROVE  BetterShown(words, vectors, Chosen(Fused(weight, words, vectors)))
<1> PICK hits : hits = Fused(weight, words, vectors)
  OBVIOUS
<1> PICK picked : picked = Chosen(hits)
  OBVIOUS
<1>1. FusedWell(hits, weight, words, vectors)
  BY FusedIs
<1>2. hits \in Seq(Mistakes)
  BY <1>1 DEF FusedWell
<1>3. ChosenWell(picked, hits)
  BY <1>2, ChosenIs
<1>4. picked \in Seq(Mistakes) /\ DOMAIN picked = 1 .. Len(picked)
  BY <1>3, LenProperties DEF ChosenWell
<1>5. ASSUME NEW p \in Mistakes, NEW q \in Range(picked),
             \A ranking \in {words, vectors} : In(ranking, q) => Ahead(ranking, p, q)
      PROVE  \E r \in Range(picked) : Cause[r] = Cause[p]
  <2>1. PICK n \in DOMAIN picked : picked[n] = q
    BY <1>4, RangeIs
  <2>2. PICK i \in DOMAIN hits :
          /\ picked[n] = hits[i]
          /\ \A j \in DOMAIN hits : j < i => \E m \in DOMAIN picked : Cause[picked[m]] = Cause[hits[j]]
    BY <1>3 DEF ChosenWell
  <2>3. hits[i] = q /\ q \in Hits(words, vectors)
    BY <1>1, <2>1, <2>2 DEF FusedWell
  <2>4. p \in Hits(words, vectors) /\ Precedes(weight, words, vectors, p, hits[i])
    BY <1>5, <2>3, AheadPrecedes
  <2>5. PICK j \in DOMAIN hits : j < i /\ hits[j] = p
    BY <1>1, <2>4 DEF FusedWell
  <2>6. PICK m \in DOMAIN picked : Cause[picked[m]] = Cause[p]
    BY <2>2, <2>5
  <2>7. picked[m] \in Range(picked)
    BY <1>4, RangeIs
  <2> QED BY <2>6, <2>7
<1>6. BetterShown(words, vectors, picked)
  BY <1>5 DEF BetterShown
<1> QED BY <1>6

-----------------------------------------------------------------------------
(* MistakeRecall: the types, and better hits.                              *)

LEMMA RecallInitShape == RecallInit => RecallShape
<1> SUFFICES ASSUME RecallInit PROVE RecallShape
  OBVIOUS
<1> USE RecallNumbersHold, RecallAssumption DEF RecallInit, RecallNumbers
<1>1. events \in Seq(EventRow)
  BY DEF EventRow
<1>2. \A i \in DOMAIN events : events[i].outcome \in InjectionOutcomes /\ events[i].shown \subseteq Mistakes
  <2>1. \A i \in DOMAIN events : events[i] \in EventRow
    BY <1>1, ElementOfSeq, LenProperties
  <2> QED BY <2>1 DEF EventRow
<1>3. recalled.words \in Seq(Mistakes) /\ recalled.vectors \in Seq(HasVector)
      /\ recalled.shown \in Seq(Mistakes) /\ Len(recalled.shown) <= ShowLimit
  <2>1. recalled.words = <<>> /\ recalled.vectors = <<>> /\ recalled.shown = <<>>
    BY DEF NothingRecalled
  <2> QED BY <2>1, EmptySeq
<1>4. rows \in [Optimizers -> SUBSET (Mistakes \X BOOLEAN \X (0 .. MaxResolutions))]
  OBVIOUS
<1>5. eligible \in [Mistakes -> BOOLEAN] /\ quarantined \subseteq Mistakes
      /\ reported \in [Mistakes -> 0 .. MaxResolutions] /\ turned \in [Mistakes -> Int]
  OBVIOUS
<1> QED BY <1>1, <1>2, <1>3, <1>4, <1>5 DEF RecallShape, RecallTypeOK

\* What the shape says of an event and of a row.
LEMMA ShapeOfEvents ==
  ASSUME RecallShape
  PROVE  /\ Len(events) \in Nat /\ DOMAIN events = 1 .. Len(events)
         /\ \A i \in DOMAIN events : events[i] \in EventRow /\ events[i].shown \subseteq Mistakes
         /\ \A o \in Optimizers : \A row \in rows[o] :
              row[1] \in Mistakes /\ row[2] \in BOOLEAN /\ row[3] \in 0 .. MaxResolutions
<1>1. Len(events) \in Nat /\ DOMAIN events = 1 .. Len(events)
  BY LenProperties DEF RecallShape
<1>2. \A i \in DOMAIN events : events[i] \in EventRow
  BY <1>1, ElementOfSeq DEF RecallShape
<1>3. \A i \in DOMAIN events : events[i].shown \subseteq Mistakes
  BY <1>2 DEF EventRow
<1>4. \A o \in Optimizers : \A row \in rows[o] :
        row[1] \in Mistakes /\ row[2] \in BOOLEAN /\ row[3] \in 0 .. MaxResolutions
  <2> SUFFICES ASSUME NEW o \in Optimizers, NEW row \in rows[o]
               PROVE  row[1] \in Mistakes /\ row[2] \in BOOLEAN /\ row[3] \in 0 .. MaxResolutions
    OBVIOUS
  <2>1. row \in Mistakes \X BOOLEAN \X (0 .. MaxResolutions)
    BY DEF RecallShape
  <2> QED BY <2>1
<1> QED BY <1>1, <1>2, <1>3, <1>4

LEMMA RecallShapeFrom ==
  ASSUME events' \in Seq(EventRow),
         rows' \in [Optimizers -> SUBSET (Mistakes \X BOOLEAN \X (0 .. MaxResolutions))],
         eligible' \in [Mistakes -> BOOLEAN], quarantined' \subseteq Mistakes,
         reported' \in [Mistakes -> 0 .. MaxResolutions], turned' \in [Mistakes -> Int],
         recalled'.words \in Seq(Mistakes), recalled'.vectors \in Seq(HasVector),
         recalled'.shown \in Seq(Mistakes), Len(recalled'.shown) <= ShowLimit
  PROVE  RecallShape'
<1>1. \A i \in DOMAIN events' : events'[i].outcome \in InjectionOutcomes /\ events'[i].shown \subseteq Mistakes
  <2>1. \A i \in DOMAIN events' : events'[i] \in EventRow
    BY ElementOfSeq, LenProperties
  <2> QED BY <2>1 DEF EventRow
<1> QED BY <1>1 DEF RecallShape, RecallTypeOK

\* A prompt shows better hits and leaves every count of outcomes.
LEMMA InjectKeeps ==
  ASSUME RecallShape, NEW text \in PromptTexts, NEW weight \in Weights,
         NEW words \in WordRankings(text), NEW vectors \in VectorRankings, Inject(text, weight, words, vectors)
  PROVE  /\ RecallShape' /\ BetterHitShown'
         /\ \A p \in Mistakes : Prevented(p)' = Prevented(p) /\ OutcomesOf(p)' = OutcomesOf(p)
<1> PICK hits : hits = Fused(weight, words, vectors)
  OBVIOUS
<1> PICK picked : picked = Chosen(hits)
  OBVIOUS
<1>1. Rankings(words, vectors) /\ vectors \in Seq(HasVector)
  BY RankingsAre
<1>2. hits \in Seq(Mistakes)
  BY <1>1, FusedIs DEF FusedWell
<1>3. picked \in Seq(Mistakes) /\ Len(picked) <= ShowLimit
  BY <1>2, ChosenIs DEF ChosenWell
<1>4. /\ recalled' = [words |-> words, vectors |-> vectors, shown |-> picked]
      /\ events' = events \/ events' = Append(events, [shown |-> Range(picked), outcome |-> "unknown"])
      /\ UNCHANGED <<eligible, quarantined, rows, reported, turned>>
  BY DEF Inject
<1>5. Range(picked) \in SUBSET Mistakes
  BY <1>3, RangeIs
<1>6. events \in Seq(EventRow)
  BY DEF RecallShape
<1>7. /\ events' \in Seq(EventRow)
      /\ \A p \in Mistakes : Prevented(p)' = Prevented(p) /\ OutcomesOf(p)' = OutcomesOf(p)
  BY <1>4, <1>5, <1>6, ShowingCountsNothing
<1>8. recalled'.words = words /\ recalled'.vectors = vectors /\ recalled'.shown = picked
  BY <1>4
<1>9. RecallShape'
  BY <1>1, <1>3, <1>4, <1>7, <1>8, RecallShapeFrom DEF RecallShape, RecallTypeOK, Rankings
<1>10. BetterHitShown'
  <2>1. BetterShown(words, vectors, picked)
    BY <1>1, ChosenIsBetter
  <2> QED BY <1>8, <2>1 DEF BetterShown, BetterHitShown
<1> QED BY <1>7, <1>9, <1>10

\* An outcome counts once for each mistake that was shown.
LEMMA ResolveKeeps ==
  ASSUME RecallShape, NEW i \in DOMAIN events, NEW outcome \in InjectionOutcomes \ {"unknown"}, Resolve(i, outcome)
  PROVE  /\ RecallShape'
         /\ \A p \in Mistakes :
              IF p \in events[i].shown
              THEN /\ OneReport(Prevented(p), OutcomesOf(p), Prevented(p)', OutcomesOf(p)')
                   /\ reported'[p] = reported[p] + 1
              ELSE Prevented(p)' = Prevented(p) /\ OutcomesOf(p)' = OutcomesOf(p) /\ reported'[p] = reported[p]
<1>1. outcome \in {"prevented", "recurred"}
  BY DEF InjectionOutcomes
<1>2. /\ events' = [events EXCEPT ![i].outcome = outcome]
      /\ reported' = [p \in Mistakes |-> IF p \in events[i].shown THEN reported[p] + 1 ELSE reported[p]]
      /\ UNCHANGED <<recalled, eligible, quarantined, rows, turned>>
      /\ \A p \in events[i].shown : reported[p] < MaxResolutions
  BY DEF Resolve
<1>3. events \in Seq(EventRow)
  BY DEF RecallShape
<1>4. events' \in Seq(EventRow)
  <2>1. events[i] \in EventRow /\ i \in 1 .. Len(events)
    BY ShapeOfEvents
  <2>2. [events[i] EXCEPT !.outcome = outcome] \in EventRow
    BY <2>1, <1>1 DEF EventRow, InjectionOutcomes
  <2>3. events' = [events EXCEPT ![i] = [events[i] EXCEPT !.outcome = outcome]]
    BY <1>2
  <2> QED BY <1>3, <2>1, <2>2, <2>3, ExceptSeq
<1>5. reported' \in [Mistakes -> 0 .. MaxResolutions]
  <2>1. reported \in [Mistakes -> 0 .. MaxResolutions] /\ MaxResolutions \in Nat
    BY RecallNumbersHold DEF RecallShape, RecallTypeOK, RecallNumbers
  <2>2. ASSUME NEW p \in Mistakes
        PROVE  (IF p \in events[i].shown THEN reported[p] + 1 ELSE reported[p]) \in 0 .. MaxResolutions
    BY <1>2, <2>1
  <2> QED BY <1>2, <2>2
<1>6. RecallShape'
  <2>1. /\ rows' \in [Optimizers -> SUBSET (Mistakes \X BOOLEAN \X (0 .. MaxResolutions))]
        /\ eligible' \in [Mistakes -> BOOLEAN] /\ quarantined' \subseteq Mistakes /\ turned' \in [Mistakes -> Int]
        /\ recalled'.words \in Seq(Mistakes) /\ recalled'.vectors \in Seq(HasVector)
        /\ recalled'.shown \in Seq(Mistakes) /\ Len(recalled'.shown) <= ShowLimit
    BY <1>2 DEF RecallShape, RecallTypeOK
  <2> QED BY <1>4, <1>5, <2>1, RecallShapeFrom
<1>7. ASSUME NEW p \in Mistakes, p \in events[i].shown
      PROVE  /\ OneReport(Prevented(p), OutcomesOf(p), Prevented(p)', OutcomesOf(p)')
             /\ reported'[p] = reported[p] + 1
  BY <1>1, <1>2, <1>3, <1>7, Recount
<1>8. ASSUME NEW p \in Mistakes, p \notin events[i].shown
      PROVE  Prevented(p)' = Prevented(p) /\ OutcomesOf(p)' = OutcomesOf(p) /\ reported'[p] = reported[p]
  BY <1>1, <1>2, <1>3, <1>8, Recount
<1> QED BY <1>6, <1>7, <1>8

\* Every other step leaves what was recalled, the events and what was reported.
LEMMA OtherKeeps ==
  ASSUME RecallShape, UNCHANGED <<recalled, events, reported>>,
         rows' \in [Optimizers -> SUBSET (Mistakes \X BOOLEAN \X (0 .. MaxResolutions))],
         eligible' \in [Mistakes -> BOOLEAN], quarantined' \subseteq Mistakes, turned' \in [Mistakes -> Int]
  PROVE  RecallShape'
  BY RecallShapeFrom DEF RecallShape, RecallTypeOK

-----------------------------------------------------------------------------
(* MistakeRecall: the pool does not flap.                                  *)

\* A pass has turned p's eligibility, and what the outcomes were then still tells on
\* what they are now.
ByPass(p) ==
  /\ turned[p] >= 0
  /\ IF eligible[p] THEN StillBoosted(Prevented(p), OutcomesOf(p), reported[p] - turned[p])
     ELSE StillRetired(Prevented(p), OutcomesOf(p), reported[p] - turned[p])

\* A row that is still to be written: it turns p only when enough was reported since
\* the last turn, and what it rests on still tells.
RowHolds(row) ==
  /\ row[2] # eligible[row[1]] => Enough(row[3] - turned[row[1]])
  /\ IF row[2] THEN StillBoosted(Prevented(row[1]), OutcomesOf(row[1]), reported[row[1]] - row[3])
     ELSE StillRetired(Prevented(row[1]), OutcomesOf(row[1]), reported[row[1]] - row[3])

OneOptimizer == \A o, s \in Optimizers : o = s

PoolInv ==
  /\ \A p \in Mistakes : turned[p] = -JudgeAfter \/ ByPass(p)
  /\ \A o \in Optimizers : \A row \in rows[o] : RowHolds(row)
  /\ \A o \in Optimizers : \A row, other \in rows[o] : row[1] = other[1] => row = other

LEMMA CountsAre ==
  ASSUME RecallShape, NEW p \in Mistakes
  PROVE  /\ Prevented(p) \in Nat /\ OutcomesOf(p) \in Nat
         /\ reported[p] \in Nat /\ reported[p] \in 0 .. MaxResolutions
         /\ turned[p] \in Int /\ eligible[p] \in BOOLEAN
<1>1. Prevented(p) \in Nat /\ OutcomesOf(p) \in Nat
  BY OutcomeSets DEF RecallShape
<1>2. reported[p] \in 0 .. MaxResolutions /\ turned[p] \in Int /\ eligible[p] \in BOOLEAN
  BY DEF RecallShape, RecallTypeOK
<1> QED BY <1>1, <1>2, RecallNumbersHold DEF RecallNumbers

\* Nothing that bears on p has changed.
OutcomesStay(p) ==
  /\ Prevented(p)' = Prevented(p) /\ OutcomesOf(p)' = OutcomesOf(p)
  /\ reported'[p] = reported[p]

LEMMA SameEvents ==
  ASSUME RecallShape, UNCHANGED <<events, reported>>, NEW p \in Mistakes
  PROVE  OutcomesStay(p)
<1>1. Prevented(p)' = Prevented(p) /\ OutcomesOf(p)' = OutcomesOf(p)
  BY DEF Prevented, OutcomesOf, With
<1> QED BY <1>1 DEF OutcomesStay

LEMMA PoolInitHolds == RecallInit => PoolInv
<1> SUFFICES ASSUME RecallInit PROVE PoolInv
  OBVIOUS
<1>1. \A p \in Mistakes : turned[p] = -JudgeAfter
  BY DEF RecallInit
<1>2. \A o \in Optimizers : rows[o] = {}
  BY DEF RecallInit
<1> QED BY <1>1, <1>2 DEF PoolInv

\* The pool stays as it is while outcomes are reported.
LEMMA PoolAfterReport ==
  ASSUME RecallShape, PoolInv, UNCHANGED <<eligible, rows, turned>>,
         \A p \in Mistakes :
           IF reported'[p] = reported[p] + 1
           THEN OneReport(Prevented(p), OutcomesOf(p), Prevented(p)', OutcomesOf(p)')
           ELSE OutcomesStay(p),
         \A p \in Mistakes : Prevented(p)' \in Nat /\ OutcomesOf(p)' \in Nat
  PROVE  PoolInv'
<1>1. ASSUME NEW p \in Mistakes, NEW d \in Int
      PROVE  /\ StillBoosted(Prevented(p), OutcomesOf(p), reported[p] - d)
                  => StillBoosted(Prevented(p)', OutcomesOf(p)', reported'[p] - d)
             /\ StillRetired(Prevented(p), OutcomesOf(p), reported[p] - d)
                  => StillRetired(Prevented(p)', OutcomesOf(p)', reported'[p] - d)
  <2>1. PICK a \in Nat, n \in Nat, b \in Nat, m \in Nat :
          a = Prevented(p) /\ n = OutcomesOf(p) /\ b = Prevented(p)' /\ m = OutcomesOf(p)'
    BY CountsAre
  <2>2. reported[p] \in Nat
    BY CountsAre
  <2>3. CASE reported'[p] = reported[p] + 1
    <3>1. OneReport(a, n, b, m)
      BY <2>1, <2>3
    <3>2. PICK e \in Int : e = reported[p] - d /\ reported'[p] - d = e + 1
      BY <2>2, <2>3
    <3>3. /\ StillBoosted(a, n, e) => StillBoosted(b, m, e + 1)
          /\ StillRetired(a, n, e) => StillRetired(b, m, e + 1)
      BY <3>1, ReportKeeps
    <3> QED BY <2>1, <3>2, <3>3
  <2>4. CASE reported'[p] # reported[p] + 1
    BY <2>4 DEF OutcomesStay
  <2> QED BY <2>3, <2>4
<1>2. ASSUME NEW p \in Mistakes PROVE (turned[p] = -JudgeAfter \/ ByPass(p))'
  <2>1. turned[p] \in Int
    BY CountsAre
  <2>2. CASE turned[p] = -JudgeAfter
    BY <2>2
  <2>3. CASE ByPass(p)
    <3>1. ByPass(p)'
      BY <1>1, <2>1, <2>3 DEF ByPass
    <3> QED BY <3>1
  <2> QED BY <2>2, <2>3 DEF PoolInv
<1>3. ASSUME NEW o \in Optimizers, NEW row \in rows'[o] PROVE RowHolds(row)'
  <2>1. row \in rows[o] /\ RowHolds(row)
    BY <1>3 DEF PoolInv
  <2>2. row[1] \in Mistakes /\ row[3] \in Int
    BY <2>1, ShapeOfEvents
  <2> QED BY <1>1, <2>1, <2>2 DEF RowHolds
<1>4. \A o \in Optimizers : \A row, other \in rows'[o] : row[1] = other[1] => row = other
  BY DEF PoolInv
<1> QED BY <1>2, <1>3, <1>4 DEF PoolInv

LEMMA PoolAfterInject ==
  ASSUME RecallShape, PoolInv, NEW text \in PromptTexts, NEW weight \in Weights,
         NEW words \in WordRankings(text), NEW vectors \in VectorRankings, Inject(text, weight, words, vectors)
  PROVE  PoolInv'
<1>1. UNCHANGED <<eligible, quarantined, rows, reported, turned>>
  BY DEF Inject
<1>2. \A p \in Mistakes : Prevented(p)' = Prevented(p) /\ OutcomesOf(p)' = OutcomesOf(p)
  BY InjectKeeps
<1>3. \A p \in Mistakes : OutcomesStay(p) /\ reported'[p] # reported[p] + 1
  BY <1>1, <1>2, CountsAre DEF OutcomesStay
<1>4. \A p \in Mistakes : Prevented(p)' \in Nat /\ OutcomesOf(p)' \in Nat
  BY <1>2, CountsAre
<1> QED BY <1>1, <1>3, <1>4, PoolAfterReport

LEMMA PoolAfterResolve ==
  ASSUME RecallShape, PoolInv, NEW i \in DOMAIN events, NEW outcome \in InjectionOutcomes \ {"unknown"},
         Resolve(i, outcome)
  PROVE  PoolInv'
<1>1. UNCHANGED <<eligible, rows, turned>>
  BY DEF Resolve
<1>2. RecallShape'
  BY ResolveKeeps
<1>3. \A p \in Mistakes : Prevented(p)' \in Nat /\ OutcomesOf(p)' \in Nat
  <2> TAKE p \in Mistakes
  <2>1. (events \in Seq(EventRow))'
    BY <1>2 DEF RecallShape
  <2>2. (Prevented(p) \in Nat /\ OutcomesOf(p) \in Nat)'
    BY <1>2, CountsAre, PTL
  <2> QED BY <2>2
<1>4. ASSUME NEW p \in Mistakes
      PROVE  IF reported'[p] = reported[p] + 1
             THEN OneReport(Prevented(p), OutcomesOf(p), Prevented(p)', OutcomesOf(p)')
             ELSE OutcomesStay(p)
  <2>1. reported[p] \in Nat
    BY CountsAre
  <2> QED BY <2>1, ResolveKeeps DEF OutcomesStay
<1> QED BY <1>1, <1>3, <1>4, PoolAfterReport

\* A pass decides nothing that has not had time to change.
LEMMA DecidedHolds ==
  ASSUME RecallShape, PoolInv, NEW p \in Mistakes
  PROVE  /\ Retires(p) => RowHolds(<<p, FALSE, reported[p]>>)
         /\ Boosts(p) => RowHolds(<<p, TRUE, reported[p]>>)
<1>1. PICK a \in Nat, n \in Nat, r \in Nat, t \in Int : a = Prevented(p) /\ n = OutcomesOf(p) /\ r = reported[p] /\ t = turned[p]
  BY CountsAre
<1>2. eligible[p] \in BOOLEAN /\ r - r = 0 /\ r - t \in Int
  BY CountsAre
<1>3. t = -JudgeAfter => Enough(r - t)
  BY EnoughSincePerson
<1>4. t = -JudgeAfter \/ (IF eligible[p] THEN StillBoosted(a, n, r - t) ELSE StillRetired(a, n, r - t))
  BY <1>1 DEF PoolInv, ByPass
<1>5. ASSUME Retires(p) PROVE RowHolds(<<p, FALSE, reported[p]>>)
  <2>1. n >= JudgeAfter /\ 100 * a < FloorPercent * n
    BY <1>1, <1>5 DEF Retires
  <2>2. StillRetired(a, n, 0) /\ (StillBoosted(a, n, r - t) => Enough(r - t))
    BY <1>2, <2>1, RetireFacts
  <2>3. eligible[p] => Enough(r - t)
    BY <1>3, <1>4, <2>2
  <2>4. StillRetired(a, n, r - r)
    BY <1>2, <2>2
  <2> QED BY <1>1, <1>2, <2>3, <2>4 DEF RowHolds
<1>6. ASSUME Boosts(p) PROVE RowHolds(<<p, TRUE, reported[p]>>)
  <2>1. 100 * a > BoostPercent * n
    BY <1>1, <1>6 DEF Boosts
  <2>2. StillBoosted(a, n, 0) /\ (StillRetired(a, n, r - t) => Enough(r - t))
    BY <1>2, <2>1, BoostFacts
  <2>3. ~eligible[p] => Enough(r - t)
    BY <1>3, <1>4, <2>2
  <2>4. StillBoosted(a, n, r - r)
    BY <1>2, <2>2
  <2> QED BY <1>1, <1>2, <2>3, <2>4 DEF RowHolds
<1> QED BY <1>5, <1>6

\* A row holds as long as its mistake is not turned or reported of.
LEMMA RowStays ==
  ASSUME NEW row, OutcomesStay(row[1]), RowHolds(row),
         row[2] # eligible'[row[1]] => row[2] # eligible[row[1]] /\ turned'[row[1]] = turned[row[1]]
  PROVE  RowHolds(row)'
  BY DEF RowHolds, OutcomesStay

LEMMA NothingInIt == Range(<<>>) = {}
<1>1. DOMAIN <<>> = 1 .. Len(<<>>) /\ Len(<<>>) = 0
  BY EmptySeq, LenProperties
<1>2. DOMAIN <<>> = {}
  BY <1>1
<1> QED BY <1>2 DEF Range

\* What a pass decides rests on what was reported.
LEMMA BeginPassKeeps ==
  ASSUME RecallShape, NEW o \in Optimizers, BeginPass(o)
  PROVE  RecallShape' /\ (PoolInv => PoolInv')
<1> DEFINE Retired == {<<p, FALSE, reported[p]>> : p \in {q \in Mistakes : Retires(q)}}
           Boosted == {<<p, TRUE, reported[p]>> : p \in {q \in Mistakes : Boosts(q) /\ ~Retires(q)}}
<1>1. /\ rows' = [rows EXCEPT ![o] = Retired \cup Boosted]
      /\ UNCHANGED <<recalled, events, eligible, quarantined, reported, turned>>
  BY DEF BeginPass
<1>2. ASSUME NEW row \in Retired \cup Boosted
      PROVE  /\ row \in Mistakes \X BOOLEAN \X (0 .. MaxResolutions)
             /\ row[1] \in Mistakes /\ (PoolInv => RowHolds(row)) /\ row = <<row[1], row[2], reported[row[1]]>>
             /\ row[2] = IF Retires(row[1]) THEN FALSE ELSE TRUE
  <2>1. CASE row \in Retired
    <3>1. PICK p \in Mistakes : Retires(p) /\ row = <<p, FALSE, reported[p]>>
      BY <2>1
    <3>2. (PoolInv => RowHolds(row)) /\ reported[p] \in 0 .. MaxResolutions
      BY <3>1, CountsAre, DecidedHolds
    <3> QED BY <3>1, <3>2
  <2>2. CASE row \in Boosted
    <3>1. PICK p \in Mistakes : Boosts(p) /\ ~Retires(p) /\ row = <<p, TRUE, reported[p]>>
      BY <2>2
    <3>2. (PoolInv => RowHolds(row)) /\ reported[p] \in 0 .. MaxResolutions
      BY <3>1, CountsAre, DecidedHolds
    <3> QED BY <3>1, <3>2
  <2> QED BY <2>1, <2>2
<1> HIDE DEF Retired, Boosted
<1>3. rows \in [Optimizers -> SUBSET (Mistakes \X BOOLEAN \X (0 .. MaxResolutions))]
  BY DEF RecallShape
<1>4. rows' \in [Optimizers -> SUBSET (Mistakes \X BOOLEAN \X (0 .. MaxResolutions))]
  <2>1. Retired \cup Boosted \in SUBSET (Mistakes \X BOOLEAN \X (0 .. MaxResolutions))
    BY <1>2
  <2> QED BY <1>1, <1>3, <2>1
<1>5. RecallShape'
  BY <1>1, <1>4, OtherKeeps DEF RecallShape, RecallTypeOK
<1>6. \A p \in Mistakes : OutcomesStay(p)
  BY <1>1, SameEvents
<1>7. ASSUME PoolInv PROVE PoolInv'
  <2>1. ASSUME NEW p \in Mistakes PROVE (turned[p] = -JudgeAfter \/ ByPass(p))'
    <3>1. turned[p] = -JudgeAfter \/ ByPass(p)
      BY <1>7 DEF PoolInv
    <3> QED BY <1>1, <1>6, <3>1 DEF ByPass, OutcomesStay
  <2>2. ASSUME NEW s \in Optimizers, NEW row \in rows'[s] PROVE RowHolds(row)'
    <3>1. RowHolds(row) /\ row[1] \in Mistakes
      <4>1. CASE s = o
        BY <1>1, <1>2, <1>3, <1>7, <2>2, <4>1
      <4>2. CASE s # o
        <5>1. row \in rows[s]
          BY <1>1, <1>3, <2>2, <4>2
        <5> QED BY <1>7, <5>1, ShapeOfEvents DEF PoolInv
      <4> QED BY <4>1, <4>2
    <3> QED BY <1>1, <1>6, <3>1, RowStays
  <2>3. ASSUME NEW s \in Optimizers, NEW row \in rows'[s], NEW other \in rows'[s], row[1] = other[1]
        PROVE  row = other
    <3>1. CASE s = o
      <4>1. row \in Retired \cup Boosted /\ other \in Retired \cup Boosted
        BY <1>1, <1>3, <2>3, <3>1
      <4>2. row[2] = other[2]
        <5>1. row[2] = (IF Retires(row[1]) THEN FALSE ELSE TRUE) /\ other[2] = (IF Retires(other[1]) THEN FALSE ELSE TRUE)
          BY <1>2, <4>1
        <5> QED BY <2>3, <5>1
      <4>3. row = <<row[1], row[2], reported[row[1]]>> /\ other = <<other[1], other[2], reported[other[1]]>>
        BY <1>2, <4>1
      <4> QED BY <2>3, <4>2, <4>3
    <3>2. CASE s # o
      <4>1. row \in rows[s] /\ other \in rows[s]
        BY <1>1, <1>3, <2>3, <3>2
      <4> QED BY <1>7, <2>3, <4>1 DEF PoolInv
    <3> QED BY <3>1, <3>2
  <2> QED BY <2>1, <2>2, <2>3 DEF PoolInv
<1> QED BY <1>5, <1>7

LEMMA WriteRowShape ==
  ASSUME RecallShape, NEW o \in Optimizers, NEW row \in rows[o], WriteRow(o, row)
  PROVE  /\ RecallShape'
         /\ rows' \in [Optimizers -> SUBSET (Mistakes \X BOOLEAN \X (0 .. MaxResolutions))]
         /\ rows'[o] = rows[o] \ {row} /\ \A s \in Optimizers \ {o} : rows'[s] = rows[s]
         /\ UNCHANGED <<recalled, events, quarantined, reported>>
         /\ eligible'[row[1]] = row[2]
         /\ turned'[row[1]] = (IF eligible[row[1]] = row[2] THEN turned[row[1]] ELSE row[3])
         /\ \A p \in Mistakes \ {row[1]} : eligible'[p] = eligible[p] /\ turned'[p] = turned[p]
<1>1. row[1] \in Mistakes /\ row[2] \in BOOLEAN /\ row[3] \in 0 .. MaxResolutions /\ row[3] \in Int
  BY ShapeOfEvents
<1>2. /\ rows \in [Optimizers -> SUBSET (Mistakes \X BOOLEAN \X (0 .. MaxResolutions))]
      /\ eligible \in [Mistakes -> BOOLEAN] /\ turned \in [Mistakes -> Int] /\ quarantined \subseteq Mistakes
  BY DEF RecallShape, RecallTypeOK
<1>3. /\ rows' = [rows EXCEPT ![o] = rows[o] \ {row}]
      /\ eligible' = [eligible EXCEPT ![row[1]] = row[2]]
      /\ turned' = [turned EXCEPT ![row[1]] = IF eligible[row[1]] = row[2] THEN turned[row[1]] ELSE row[3]]
      /\ UNCHANGED <<recalled, events, quarantined, reported>>
  BY DEF WriteRow
<1>4. rows' \in [Optimizers -> SUBSET (Mistakes \X BOOLEAN \X (0 .. MaxResolutions))]
  <2>1. rows[o] \ {row} \in SUBSET (Mistakes \X BOOLEAN \X (0 .. MaxResolutions))
    BY <1>2
  <2> QED BY <1>2, <1>3, <2>1
<1>5. eligible' \in [Mistakes -> BOOLEAN] /\ turned' \in [Mistakes -> Int]
  <2>1. (IF eligible[row[1]] = row[2] THEN turned[row[1]] ELSE row[3]) \in Int
    BY <1>1, <1>2
  <2> QED BY <1>1, <1>2, <1>3, <2>1
<1>6. RecallShape'
  BY <1>2, <1>3, <1>4, <1>5, OtherKeeps
<1> QED BY <1>1, <1>2, <1>3, <1>4, <1>6

\* Writing a row turns its mistake and leaves the other rows of the pass as they are.
LEMMA WriteRowKeeps ==
  ASSUME RecallShape, PoolInv, OneOptimizer, NEW o \in Optimizers, NEW row \in rows[o], WriteRow(o, row)
  PROVE  PoolInv'
<1>1. row[1] \in Mistakes /\ row[2] \in BOOLEAN /\ row[3] \in Int /\ row[3] >= 0
  BY ShapeOfEvents, RecallNumbersHold DEF RecallNumbers
<1>2. /\ rows'[o] = rows[o] \ {row}
      /\ UNCHANGED <<recalled, events, quarantined, reported>>
      /\ eligible'[row[1]] = row[2]
      /\ turned'[row[1]] = (IF eligible[row[1]] = row[2] THEN turned[row[1]] ELSE row[3])
      /\ \A p \in Mistakes \ {row[1]} : eligible'[p] = eligible[p] /\ turned'[p] = turned[p]
  BY WriteRowShape
<1>3. \A p \in Mistakes : OutcomesStay(p)
  BY <1>2, SameEvents
<1>4. RowHolds(row)
  BY DEF PoolInv
<1>5. ASSUME NEW p \in Mistakes PROVE (turned[p] = -JudgeAfter \/ ByPass(p))'
  <2>1. turned[p] = -JudgeAfter \/ ByPass(p)
    BY DEF PoolInv
  <2>2. CASE p # row[1]
    BY <1>2, <1>3, <2>1, <2>2 DEF ByPass, OutcomesStay
  <2>3. CASE p = row[1] /\ eligible[p] = row[2]
    BY <1>2, <1>3, <2>1, <2>3 DEF ByPass, OutcomesStay
  <2>4. CASE p = row[1] /\ eligible[p] # row[2]
    <3>1. eligible'[p] = row[2] /\ turned'[p] = row[3]
      BY <1>2, <2>4
    <3>2. IF row[2] THEN StillBoosted(Prevented(p), OutcomesOf(p), reported[p] - row[3])
          ELSE StillRetired(Prevented(p), OutcomesOf(p), reported[p] - row[3])
      BY <1>4, <2>4 DEF RowHolds
    <3>3. ByPass(p)'
      BY <1>1, <1>3, <3>1, <3>2 DEF ByPass, OutcomesStay
    <3> QED BY <3>3
  <2> QED BY <2>2, <2>3, <2>4
<1>6. ASSUME NEW s \in Optimizers, NEW other \in rows'[s] PROVE RowHolds(other)'
  <2>1. s = o
    BY DEF OneOptimizer
  <2>2. other \in rows[o] /\ other # row
    BY <1>2, <1>6, <2>1
  <2>3. other[1] \in Mistakes /\ other[1] # row[1] /\ RowHolds(other)
    BY <2>2, ShapeOfEvents DEF PoolInv
  <2>4. eligible'[other[1]] = eligible[other[1]] /\ turned'[other[1]] = turned[other[1]] /\ OutcomesStay(other[1])
    BY <1>2, <1>3, <2>3
  <2> QED BY <2>3, <2>4, RowStays
<1>7. ASSUME NEW s \in Optimizers, NEW row1 \in rows'[s], NEW row2 \in rows'[s], row1[1] = row2[1]
      PROVE  row1 = row2
  <2>1. s = o
    BY DEF OneOptimizer
  <2>2. row1 \in rows[o] /\ row2 \in rows[o]
    BY <1>2, <1>7, <2>1
  <2> QED BY <1>7, <2>2 DEF PoolInv
<1> QED BY <1>5, <1>6, <1>7 DEF PoolInv

LEMMA CutPassKeeps ==
  ASSUME RecallShape, NEW o \in Optimizers, CutPass(o)
  PROVE  RecallShape' /\ (PoolInv => PoolInv')
<1>1. /\ rows' = [rows EXCEPT ![o] = {}]
      /\ UNCHANGED <<recalled, events, eligible, quarantined, reported, turned>>
  BY DEF CutPass
<1>2. /\ rows \in [Optimizers -> SUBSET (Mistakes \X BOOLEAN \X (0 .. MaxResolutions))]
      /\ eligible \in [Mistakes -> BOOLEAN] /\ turned \in [Mistakes -> Int] /\ quarantined \subseteq Mistakes
  BY DEF RecallShape, RecallTypeOK
<1>3. rows' \in [Optimizers -> SUBSET (Mistakes \X BOOLEAN \X (0 .. MaxResolutions))]
  BY <1>1, <1>2
<1>4. RecallShape'
  BY <1>1, <1>2, <1>3, OtherKeeps
<1>5. \A p \in Mistakes : OutcomesStay(p)
  BY <1>1, SameEvents
<1>6. \A s \in Optimizers : rows'[s] \subseteq rows[s]
  BY <1>1, <1>2
<1>7. ASSUME PoolInv PROVE PoolInv'
  <2>1. ASSUME NEW p \in Mistakes PROVE (turned[p] = -JudgeAfter \/ ByPass(p))'
    <3>1. turned[p] = -JudgeAfter \/ ByPass(p)
      BY <1>7 DEF PoolInv
    <3> QED BY <1>1, <1>5, <3>1 DEF ByPass, OutcomesStay
  <2>2. ASSUME NEW s \in Optimizers, NEW row \in rows'[s] PROVE RowHolds(row)'
    <3>1. row \in rows[s] /\ RowHolds(row) /\ row[1] \in Mistakes
      BY <1>6, <1>7, <2>2, ShapeOfEvents DEF PoolInv
    <3> QED BY <1>1, <1>5, <3>1, RowStays
  <2>3. ASSUME NEW s \in Optimizers, NEW row \in rows'[s], NEW other \in rows'[s], row[1] = other[1]
        PROVE  row = other
    BY <1>6, <1>7, <2>3 DEF PoolInv
  <2> QED BY <2>1, <2>2, <2>3 DEF PoolInv
<1> QED BY <1>4, <1>7

\* A person's turn of p.
TurnedByPerson(p, to) ==
  /\ eligible' = [eligible EXCEPT ![p] = to]
  /\ turned' = [turned EXCEPT ![p] = -JudgeAfter]
  /\ quarantined' \subseteq Mistakes
  /\ UNCHANGED <<recalled, events, rows, reported>>

LEMMA PersonKeeps ==
  ASSUME RecallShape, NEW p \in Mistakes, NEW to \in BOOLEAN, TurnedByPerson(p, to)
  PROVE  RecallShape' /\ (PoolInv => PoolInv')
<1>1. /\ rows \in [Optimizers -> SUBSET (Mistakes \X BOOLEAN \X (0 .. MaxResolutions))]
      /\ eligible \in [Mistakes -> BOOLEAN] /\ turned \in [Mistakes -> Int]
  BY DEF RecallShape, RecallTypeOK
<1>2. /\ UNCHANGED <<recalled, events, rows, reported>>
      /\ turned'[p] = -JudgeAfter
      /\ \A q \in Mistakes \ {p} : eligible'[q] = eligible[q] /\ turned'[q] = turned[q]
  BY <1>1 DEF TurnedByPerson
<1>3. -JudgeAfter \in Int
  BY RecallNumbersHold DEF RecallNumbers
<1>4. eligible' \in [Mistakes -> BOOLEAN] /\ turned' \in [Mistakes -> Int] /\ quarantined' \subseteq Mistakes
  BY <1>1, <1>3 DEF TurnedByPerson
<1>5. RecallShape'
  BY <1>1, <1>2, <1>4, OtherKeeps
<1>6. \A q \in Mistakes : OutcomesStay(q)
  BY <1>2, SameEvents
<1>7. ASSUME PoolInv PROVE PoolInv'
  <2>1. ASSUME NEW q \in Mistakes PROVE (turned[q] = -JudgeAfter \/ ByPass(q))'
    <3>1. CASE q = p
      BY <1>2, <3>1
    <3>2. CASE q # p
      <4>1. turned[q] = -JudgeAfter \/ ByPass(q)
        BY <1>7 DEF PoolInv
      <4> QED BY <1>2, <1>6, <3>2, <4>1 DEF ByPass, OutcomesStay
    <3> QED BY <3>1, <3>2
  <2>2. ASSUME NEW s \in Optimizers, NEW row \in rows'[s] PROVE RowHolds(row)'
    <3>1. row \in rows[s] /\ RowHolds(row) /\ row[1] \in Mistakes /\ row[3] \in Nat
      BY <1>2, <1>7, <2>2, ShapeOfEvents, RecallNumbersHold DEF PoolInv, RecallNumbers
    <3>2. CASE row[1] = p
      <4>1. Enough(row[3] - turned'[row[1]])
        BY <1>2, <3>1, <3>2, EnoughSincePerson
      <4> QED BY <1>6, <3>1, <4>1 DEF RowHolds, OutcomesStay
    <3>3. CASE row[1] # p
      BY <1>2, <1>6, <3>1, <3>3, RowStays
    <3> QED BY <3>2, <3>3
  <2>3. ASSUME NEW s \in Optimizers, NEW row \in rows'[s], NEW other \in rows'[s], row[1] = other[1]
        PROVE  row = other
    BY <1>2, <1>7, <2>3 DEF PoolInv
  <2> QED BY <2>1, <2>2, <2>3 DEF PoolInv
<1> QED BY <1>5, <1>7

LEMMA QuarantineIsPerson ==
  ASSUME RecallShape, NEW p \in Mistakes
  PROVE  /\ QuarantineMistake(p) => TurnedByPerson(p, FALSE)
         /\ ReleaseQuarantine(p) => TurnedByPerson(p, TRUE)
<1>1. quarantined \subseteq Mistakes
  BY DEF RecallShape, RecallTypeOK
<1> QED BY <1>1 DEF QuarantineMistake, ReleaseQuarantine, TurnedByPerson

\* Every step keeps the types; with one optimizer every step keeps the pool.
LEMMA RecallNextKeeps ==
  ASSUME RecallShape, [RecallNext]_recallVars
  PROVE  /\ RecallShape'
         /\ OneOptimizer /\ PoolInv => PoolInv'
         /\ BetterHitShown => BetterHitShown'
<1>1. ASSUME UNCHANGED recallVars
      PROVE  RecallShape' /\ (PoolInv => PoolInv') /\ (BetterHitShown => BetterHitShown')
  <2>1. UNCHANGED <<recalled, events, eligible, quarantined, rows, reported, turned>>
    BY <1>1 DEF recallVars
  <2>2. RecallShape'
    BY <2>1, OtherKeeps DEF RecallShape, RecallTypeOK
  <2>3. ASSUME PoolInv PROVE PoolInv'
    BY <2>1, <2>3 DEF PoolInv, RowHolds, ByPass, Prevented, OutcomesOf, With
  <2>4. ASSUME BetterHitShown PROVE BetterHitShown'
    BY <2>1, <2>4 DEF BetterHitShown
  <2> QED BY <2>2, <2>3, <2>4
<1>2. ASSUME NEW text \in PromptTexts, NEW weight \in Weights, NEW words \in WordRankings(text),
             NEW vectors \in VectorRankings, Inject(text, weight, words, vectors)
      PROVE  RecallShape' /\ (PoolInv => PoolInv') /\ BetterHitShown'
  BY <1>2, InjectKeeps, PoolAfterInject
<1>3. ASSUME recalled' = recalled, BetterHitShown PROVE BetterHitShown'
  BY <1>3 DEF BetterHitShown
<1>4. ASSUME NEW i \in DOMAIN events, NEW outcome \in InjectionOutcomes \ {"unknown"}, Resolve(i, outcome)
      PROVE  RecallShape' /\ (PoolInv => PoolInv') /\ recalled' = recalled
  <2>1. recalled' = recalled
    BY <1>4 DEF Resolve
  <2> QED BY <1>4, <2>1, ResolveKeeps, PoolAfterResolve
<1>5. ASSUME NEW o \in Optimizers, BeginPass(o)
      PROVE  RecallShape' /\ (PoolInv => PoolInv') /\ recalled' = recalled
  <2>1. recalled' = recalled
    BY <1>5 DEF BeginPass
  <2> QED BY <1>5, <2>1, BeginPassKeeps
<1>6. ASSUME NEW o \in Optimizers, CutPass(o)
      PROVE  RecallShape' /\ (PoolInv => PoolInv') /\ recalled' = recalled
  <2>1. recalled' = recalled
    BY <1>6 DEF CutPass
  <2> QED BY <1>6, <2>1, CutPassKeeps
<1>7. ASSUME NEW o \in Optimizers, NEW row \in rows[o], WriteRow(o, row)
      PROVE  RecallShape' /\ (OneOptimizer /\ PoolInv => PoolInv') /\ recalled' = recalled
  BY <1>7, WriteRowShape, WriteRowKeeps
<1>8. ASSUME NEW p \in Mistakes, QuarantineMistake(p) \/ ReleaseQuarantine(p)
      PROVE  RecallShape' /\ (PoolInv => PoolInv') /\ recalled' = recalled
  <2>1. PICK to \in BOOLEAN : TurnedByPerson(p, to)
    BY <1>8, QuarantineIsPerson
  <2>2. recalled' = recalled
    BY <2>1 DEF TurnedByPerson
  <2> QED BY <2>1, <2>2, PersonKeeps
<1> QED BY <1>1, <1>2, <1>3, <1>4, <1>5, <1>6, <1>7, <1>8 DEF RecallNext

-----------------------------------------------------------------------------
(* MistakeRecall: the theorems.                                            *)

\* The rankings, the events, the pool, and the rows of the passes keep their types, for
\* any mistakes, prompts, weights and limits, and any number of optimizers.
THEOREM RecallTypeCorrect == RecallSpec => []RecallTypeOK
<1>1. RecallShape /\ [RecallNext]_recallVars => RecallShape'
  BY RecallNextKeeps
<1>2. RecallShape => RecallTypeOK
  BY DEF RecallShape
<1> QED BY <1>1, <1>2, RecallInitShape, PTL DEF RecallSpec

\* Whatever the searches found and the weights were, a mistake that both rank before one
\* that is shown is shown as well, or another of its root cause: injection.py keeps the
\* first of each root cause in the order of hybrid_search.py.
THEOREM BetterIsShown == RecallSpec => []BetterHitShown
<1>1. RecallInit => BetterHitShown
  <2>1. ASSUME RecallInit PROVE Range(recalled.shown) = {}
    <3>1. recalled.shown = <<>>
      BY <2>1 DEF RecallInit, NothingRecalled
    <3> QED BY <3>1, NothingInIt
  <2> QED BY <2>1 DEF BetterHitShown
<1>2. RecallShape /\ [RecallNext]_recallVars => RecallShape'
  BY RecallNextKeeps
<1>3. RecallShape /\ BetterHitShown /\ [RecallNext]_recallVars => BetterHitShown'
  BY RecallNextKeeps
<1> QED BY <1>1, <1>2, <1>3, RecallInitShape, PTL DEF RecallSpec

\* The passes of one optimizer do not flap, for any floor, any threshold above it and any
\* number of outcomes to judge by: what adjust_injection_pool turns it turns back only
\* after as many reports as lie between the two.
THEOREM PoolIsSteady ==
  ASSUME OneOptimizer
  PROVE  RecallSpec => PoolDoesNotFlap
<1>1. RecallShape /\ [RecallNext]_recallVars => RecallShape'
  BY RecallNextKeeps
<1>2. RecallShape /\ PoolInv /\ [RecallNext]_recallVars => PoolInv'
  BY RecallNextKeeps
<1>3. ASSUME RecallShape, PoolInv
      PROVE  [\A o \in Optimizers : \A row \in rows[o] :
                WriteRow(o, row) /\ eligible[row[1]] # row[2] =>
                  100 * (row[3] - turned[row[1]]) > (BoostPercent - FloorPercent) * JudgeAfter]_recallVars
  BY <1>3 DEF PoolInv, RowHolds, Enough, Band
<1> QED BY <1>1, <1>2, <1>3, RecallInitShape, PoolInitHolds, PTL DEF RecallSpec, PoolDoesNotFlap

-----------------------------------------------------------------------------
(* TrialVerdicts.                                                          *)

\* What Pascal's rule makes of the row above.
RowBelow(n, above) ==
  LET row == <<1>> \o [k \in 1..n - 1 |-> above[k - 1] + above[k]] \o <<1>>
  IN [k \in 0..n |-> row[k + 1]]

LEMMA RowValues ==
  ASSUME NEW n \in Nat, NEW above
  PROVE  RowBelow(n, above) = [k \in 0..n |-> IF k \in {0, n} THEN 1 ELSE above[k - 1] + above[k]]
<1> DEFINE sums == [k \in 1 .. n - 1 |-> above[k - 1] + above[k]]
           S == {above[k - 1] + above[k] : k \in 1 .. n - 1} \cup {1}
           row == <<1>> \o sums \o <<1>>
<1>1. PICK s : s = sums
  OBVIOUS
<1>2. s \in Seq(S) /\ Len(s) = IF n = 0 THEN 0 ELSE n - 1
  <2>1. CASE n = 0
    <3>1. 1 .. n - 1 = {} /\ s = <<>>
      BY <1>1, <2>1
    <3> QED BY <2>1, <3>1
  <2>2. CASE n # 0
    <3>1. n - 1 \in Nat /\ s \in [1 .. n - 1 -> S]
      BY <1>1, <2>2
    <3> QED BY <2>2, <3>1
  <2> QED BY <2>1, <2>2
<1>3. \A k \in 1 .. n - 1 : s[k] = above[k - 1] + above[k]
  BY <1>1
<1>4. PICK r : r = row
  OBVIOUS
<1>5. r = <<1>> \o s \o <<1>> /\ <<1>> \in Seq(S) /\ Len(<<1>>) = 1
  BY <1>1, <1>4
<1> HIDE DEF sums, S, row
<1>6. ASSUME NEW k \in 0 .. n
      PROVE  r[k + 1] = IF k \in {0, n} THEN 1 ELSE above[k - 1] + above[k]
  <2>1. CASE k = 0
    BY <1>2, <1>5, <2>1
  <2>2. CASE k = n
    BY <1>2, <1>5, <2>2
  <2>3. CASE k \in 1 .. n - 1
    <3>1. r[k + 1] = s[k]
      BY <1>2, <1>5, <2>3
    <3> QED BY <1>3, <2>3, <3>1
  <2> QED BY <2>1, <2>2, <2>3
<1>7. RowBelow(n, above) = [k \in 0 .. n |-> r[k + 1]]
  BY <1>4 DEF RowBelow, row, sums
<1> QED BY <1>6, <1>7

LEMMA FirstRow == \A above : RowBelow(0, above) = [k \in 0..0 |-> 1]
<1> TAKE above
<1>1. RowBelow(0, above) = [k \in 0..0 |-> IF k \in {0, 0} THEN 1 ELSE above[k - 1] + above[k]]
  BY RowValues
<1> QED BY <1>1

\* Pascal's triangle exists, row by row.
LEMMA TriangleExists ==
  ASSUME NEW m \in Nat
  PROVE  \E f : f = [n \in 0..m |-> RowBelow(n, f[n - 1])]
<1> DEFINE S == {l \in Nat : \E f : f = [n \in 0..l |-> RowBelow(n, f[n - 1])]}
<1>1. 0 \in S
  <2>1. \A above : RowBelow(0, above) = [k \in 0..0 |-> 1]
    BY FirstRow
  <2>2. [n \in 0..0 |-> [k \in 0..0 |-> 1]] = [n \in 0..0 |-> RowBelow(n, [l \in 0..0 |-> [k \in 0..0 |-> 1]][n - 1])]
    BY <2>1
  <2> QED BY <2>2
<1>2. ASSUME NEW l \in Nat, l \in S PROVE l + 1 \in S
  <2>1. PICK f : f = [n \in 0..l |-> RowBelow(n, f[n - 1])]
    BY <1>2
  <2>2. PICK g : g = [n \in 0 .. l + 1 |-> IF n = l + 1 THEN RowBelow(l + 1, f[l]) ELSE f[n]]
    OBVIOUS
  <2>3. ASSUME NEW n \in 0 .. l + 1 PROVE g[n] = RowBelow(n, g[n - 1])
    <3>1. CASE n = l + 1
      <4>1. g[n - 1] = f[l] /\ g[n] = RowBelow(l + 1, f[l])
        BY <2>2, <3>1
      <4> QED BY <3>1, <4>1
    <3>2. CASE n = 0
      <4>1. \A above : RowBelow(0, above) = [k \in 0..0 |-> 1]
        BY FirstRow
      <4>2. 0 \in 0 .. l /\ g[0] = f[0] /\ f[0] = RowBelow(0, f[0 - 1])
        BY <2>1, <2>2
      <4> QED BY <3>2, <4>1, <4>2
    <3>3. CASE n \in 1 .. l
      <4>1. n \in 0 .. l /\ n - 1 \in 0 .. l + 1 /\ n - 1 # l + 1 /\ n # l + 1
        BY <3>3
      <4>2. g[n] = f[n] /\ g[n - 1] = f[n - 1] /\ f[n] = RowBelow(n, f[n - 1])
        BY <2>1, <2>2, <4>1
      <4> QED BY <4>2
    <3> QED BY <3>1, <3>2, <3>3
  <2>4. g = [n \in 0 .. l + 1 |-> RowBelow(n, g[n - 1])]
    BY <2>2, <2>3
  <2> QED BY <2>4
<1>3. Nat \subseteq S
  <2> HIDE DEF S
  <2> QED BY <1>1, <1>2, NatBySteps
<1> QED BY <1>3

LEMMA CombRows == \A n \in 0 .. MaxCases : Comb[n] = RowBelow(n, Comb[n - 1])
<1>1. Comb = CHOOSE f : f = [n \in 0 .. MaxCases |-> RowBelow(n, f[n - 1])]
  BY DEF Comb, RowBelow
<1>2. \E f : f = [n \in 0 .. MaxCases |-> RowBelow(n, f[n - 1])]
  BY TrialAssumption, TriangleExists
<1>3. Comb = [n \in 0 .. MaxCases |-> RowBelow(n, Comb[n - 1])]
  BY <1>1, <1>2
<1> QED BY <1>3

LEMMA CombType ==
  /\ \A n \in 0 .. MaxCases : Comb[n] \in [0 .. n -> Nat]
  /\ \A n \in 0 .. MaxCases : Comb[n][0] = 1 /\ Comb[n][n] = 1
  /\ \A n \in 1 .. MaxCases : \A k \in 1 .. n - 1 :
       Comb[n][k] = Comb[n - 1][k - 1] + Comb[n - 1][k]
<1> DEFINE S == {n \in Nat : n <= MaxCases => Comb[n] \in [0 .. n -> Nat]}
<1>1. \A n \in 0 .. MaxCases : Comb[n] = RowBelow(n, Comb[n - 1])
  BY CombRows
<1>2. 0 \in S
  <2>1. RowBelow(0, Comb[0 - 1]) = [k \in 0 .. 0 |-> 1]
    BY FirstRow
  <2>2. 0 \in 0 .. MaxCases
    BY TrialAssumption
  <2> QED BY <1>1, <2>1, <2>2
<1>3. ASSUME NEW n \in Nat, n \in S PROVE n + 1 \in S
  <2>1. SUFFICES ASSUME n + 1 <= MaxCases PROVE Comb[n + 1] \in [0 .. n + 1 -> Nat]
    OBVIOUS
  <2>2. n + 1 \in 0 .. MaxCases /\ n + 1 - 1 = n /\ Comb[n] \in [0 .. n -> Nat]
    BY <1>3, <2>1, TrialAssumption
  <2>3. Comb[n + 1] = RowBelow(n + 1, Comb[n])
    BY <1>1, <2>2
  <2>4. \A k \in 0 .. n + 1 : k \notin {0, n + 1} => k - 1 \in 0 .. n /\ k \in 0 .. n
    OBVIOUS
  <2>5. \A k \in 0 .. n + 1 : k \notin {0, n + 1} => Comb[n][k - 1] + Comb[n][k] \in Nat
    BY <2>2, <2>4
  <2>6. RowBelow(n + 1, Comb[n]) =
          [k \in 0 .. n + 1 |-> IF k \in {0, n + 1} THEN 1 ELSE Comb[n][k - 1] + Comb[n][k]]
    BY RowValues
  <2> QED BY <2>3, <2>5, <2>6
<1>4. Nat \subseteq S
  <2> HIDE DEF S
  <2> QED BY <1>2, <1>3, NatBySteps
<1>5. \A n \in 0 .. MaxCases : Comb[n] \in [0 .. n -> Nat]
  BY <1>4, TrialAssumption
<1>6. \A n \in 0 .. MaxCases : 0 \in 0 .. n /\ n \in 0 .. n
  BY TrialAssumption
<1>7. \A n \in 0 .. MaxCases : Comb[n][0] = 1 /\ Comb[n][n] = 1
  BY <1>1, <1>6, RowValues
<1>8. ASSUME NEW n \in 1 .. MaxCases, NEW k \in 1 .. n - 1
      PROVE  Comb[n][k] = Comb[n - 1][k - 1] + Comb[n - 1][k]
  <2>1. n \in 0 .. MaxCases /\ k \in 0 .. n /\ k \notin {0, n}
    BY TrialAssumption
  <2>2. RowBelow(n, Comb[n - 1]) =
          [j \in 0 .. n |-> IF j \in {0, n} THEN 1 ELSE Comb[n - 1][j - 1] + Comb[n - 1][j]]
    BY RowValues
  <2> QED BY <1>1, <2>1, <2>2
<1> QED BY <1>5, <1>7, <1>8

Doubled(n, f) == IF n = 0 THEN 1 ELSE 2 * f[n - 1]

LEMMA PowerExists ==
  ASSUME NEW m \in Nat
  PROVE  \E f : f = [n \in 0 .. m |-> Doubled(n, f)]
<1> DEFINE S == {l \in Nat : \E f : f = [n \in 0 .. l |-> Doubled(n, f)]}
<1>1. 0 \in S
  <2>1. [n \in 0 .. 0 |-> 1] = [n \in 0 .. 0 |-> Doubled(n, [l \in 0 .. 0 |-> 1])]
    BY DEF Doubled
  <2> QED BY <2>1
<1>2. ASSUME NEW l \in Nat, l \in S PROVE l + 1 \in S
  <2>1. PICK f : f = [n \in 0 .. l |-> Doubled(n, f)]
    BY <1>2
  <2>2. PICK g : g = [n \in 0 .. l + 1 |-> IF n = l + 1 THEN 2 * f[l] ELSE f[n]]
    OBVIOUS
  <2>3. ASSUME NEW n \in 0 .. l + 1 PROVE g[n] = Doubled(n, g)
    <3>1. CASE n = l + 1
      BY <2>2, <3>1 DEF Doubled
    <3>2. CASE n \in 0 .. l
      <4>1. n # l + 1 /\ (n # 0 => n - 1 \in 0 .. l /\ n - 1 \in 0 .. l + 1 /\ n - 1 # l + 1)
        BY <3>2
      <4>2. g[n] = f[n] /\ (n # 0 => g[n - 1] = f[n - 1])
        BY <2>2, <4>1
      <4>3. f[n] = Doubled(n, f)
        BY <2>1, <3>2
      <4> QED BY <4>2, <4>3 DEF Doubled
    <3> QED BY <3>1, <3>2
  <2>4. g = [n \in 0 .. l + 1 |-> Doubled(n, g)]
    BY <2>2, <2>3
  <2> QED BY <2>4
<1>3. Nat \subseteq S
  <2> HIDE DEF S
  <2> QED BY <1>1, <1>2, NatBySteps
<1> QED BY <1>3

LEMMA PowerDoubles ==
  /\ \A n \in 0 .. MaxCases : PowerOfTwo[n] \in Nat
  /\ \A n \in 1 .. MaxCases : PowerOfTwo[n] = 2 * PowerOfTwo[n - 1]
<1> DEFINE S == {n \in Nat : n <= MaxCases => PowerOfTwo[n] \in Nat}
<1>1. PowerOfTwo = CHOOSE f : f = [n \in 0 .. MaxCases |-> Doubled(n, f)]
  BY DEF PowerOfTwo, Doubled
<1>2. \E f : f = [n \in 0 .. MaxCases |-> Doubled(n, f)]
  BY TrialAssumption, PowerExists
<1>3. PowerOfTwo = [n \in 0 .. MaxCases |-> IF n = 0 THEN 1 ELSE 2 * PowerOfTwo[n - 1]]
  BY <1>1, <1>2 DEF Doubled
<1>4. \A n \in 0 .. MaxCases : PowerOfTwo[n] = IF n = 0 THEN 1 ELSE 2 * PowerOfTwo[n - 1]
  BY <1>3
<1>5. 0 \in S
  BY <1>4
<1>6. ASSUME NEW n \in Nat, n \in S PROVE n + 1 \in S
  <2>1. n + 1 <= MaxCases => n <= MaxCases /\ n + 1 \in 0 .. MaxCases /\ n + 1 # 0 /\ n + 1 - 1 = n
    BY TrialAssumption
  <2> QED BY <1>4, <1>6, <2>1
<1>7. Nat \subseteq S
  <2> HIDE DEF S
  <2> QED BY <1>5, <1>6, NatBySteps
<1>8. \A n \in 0 .. MaxCases : PowerOfTwo[n] \in Nat
  BY <1>7, TrialAssumption
<1> QED BY <1>4, <1>8

\* The sums of a row exist.
LEMMA SumsExist ==
  ASSUME NEW row, NEW m \in Nat
  PROVE  \E f : f = [k \in 0 .. m |-> row[k] + IF k = 0 THEN 0 ELSE f[k - 1]]
<1> DEFINE S == {l \in Nat : \E f : f = [k \in 0 .. l |-> row[k] + IF k = 0 THEN 0 ELSE f[k - 1]]}
<1>1. 0 \in S
  <2>1. [k \in 0 .. 0 |-> row[k] + 0]
          = [k \in 0 .. 0 |-> row[k] + IF k = 0 THEN 0 ELSE [l \in 0 .. 0 |-> row[l] + 0][k - 1]]
    OBVIOUS
  <2> QED BY <2>1
<1>2. ASSUME NEW l \in Nat, l \in S PROVE l + 1 \in S
  <2>1. PICK f : f = [k \in 0 .. l |-> row[k] + IF k = 0 THEN 0 ELSE f[k - 1]]
    BY <1>2
  <2>2. PICK g : g = [k \in 0 .. l + 1 |-> IF k = l + 1 THEN row[l + 1] + f[l] ELSE f[k]]
    OBVIOUS
  <2>3. ASSUME NEW k \in 0 .. l + 1 PROVE g[k] = row[k] + IF k = 0 THEN 0 ELSE g[k - 1]
    <3>1. CASE k = l + 1
      BY <2>2, <3>1
    <3>2. CASE k \in 0 .. l
      <4>1. k # l + 1 /\ (k # 0 => k - 1 \in 0 .. l /\ k - 1 \in 0 .. l + 1 /\ k - 1 # l + 1)
        BY <3>2
      <4>2. g[k] = f[k] /\ (k # 0 => g[k - 1] = f[k - 1])
        BY <2>2, <4>1
      <4>3. f[k] = row[k] + IF k = 0 THEN 0 ELSE f[k - 1]
        BY <2>1, <3>2
      <4> QED BY <4>2, <4>3
    <3> QED BY <3>1, <3>2
  <2>4. g = [k \in 0 .. l + 1 |-> row[k] + IF k = 0 THEN 0 ELSE g[k - 1]]
    BY <2>2, <2>3
  <2> QED BY <2>4
<1>3. Nat \subseteq S
  <2> HIDE DEF S
  <2> QED BY <1>1, <1>2, NatBySteps
<1> QED BY <1>3

LEMMA TailSums ==
  ASSUME NEW n \in 0 .. MaxCases
  PROVE  /\ BinomialTail(n) \in [0 .. n -> Nat]
         /\ BinomialTail(n)[0] = 1
         /\ \A k \in 1 .. n : BinomialTail(n)[k] = Comb[n][k] + BinomialTail(n)[k - 1]
<1>1. PICK row : row = Comb[n]
  OBVIOUS
<1>2. BinomialTail(n) = CHOOSE f : f = [k \in 0 .. n |-> row[k] + IF k = 0 THEN 0 ELSE f[k - 1]]
  BY <1>1 DEF BinomialTail
<1>3. PICK T : T = BinomialTail(n)
  OBVIOUS
<1>4. n \in Nat /\ row \in [0 .. n -> Nat] /\ row[0] = 1
  <2>1. n \in Nat
    BY TrialAssumption
  <2> QED BY <1>1, <2>1, CombType
<1>5. \E f : f = [k \in 0 .. n |-> row[k] + IF k = 0 THEN 0 ELSE f[k - 1]]
  BY <1>4, SumsExist
<1>6. T = [k \in 0 .. n |-> row[k] + IF k = 0 THEN 0 ELSE T[k - 1]]
  BY <1>2, <1>3, <1>5
<1>7. \A k \in 0 .. n : T[k] = row[k] + IF k = 0 THEN 0 ELSE T[k - 1]
  BY <1>6
<1> DEFINE S == {k \in Nat : k <= n => T[k] \in Nat}
<1>8. 0 \in S
  BY <1>4, <1>7
<1>9. ASSUME NEW k \in Nat, k \in S PROVE k + 1 \in S
  <2>1. k + 1 <= n => k + 1 \in 0 .. n /\ k + 1 # 0 /\ k + 1 - 1 = k /\ row[k + 1] \in Nat
    BY <1>4
  <2> QED BY <1>7, <1>9, <2>1
<1>10. Nat \subseteq S
  <2> HIDE DEF S
  <2> QED BY <1>8, <1>9, NatBySteps
<1>11. \A k \in 0 .. n : T[k] \in Nat
  BY <1>10
<1>12. T \in [0 .. n -> Nat]
  BY <1>6, <1>11
<1>13. T[0] = 1 /\ \A k \in 1 .. n : T[k] = row[k] + T[k - 1]
  BY <1>4, <1>7
<1> QED BY <1>1, <1>3, <1>12, <1>13

\* Pascal's rule for the sums of two rows.
LEMMA TailGrows ==
  ASSUME NEW n \in Nat, n + 1 <= MaxCases
  PROVE  \A k \in 1 .. n : BinomialTail(n + 1)[k] = BinomialTail(n)[k] + BinomialTail(n)[k - 1]
<1>1. n \in 0 .. MaxCases /\ n + 1 \in 0 .. MaxCases /\ n + 1 \in 1 .. MaxCases /\ n + 1 - 1 = n
  BY TrialAssumption
<1>2. PICK T, U, row, next : T = BinomialTail(n) /\ U = BinomialTail(n + 1) /\ row = Comb[n] /\ next = Comb[n + 1]
  OBVIOUS
<1>3. T \in [0 .. n -> Nat] /\ T[0] = 1 /\ \A k \in 1 .. n : T[k] = row[k] + T[k - 1]
  BY <1>1, <1>2, TailSums
<1>4. U \in [0 .. n + 1 -> Nat] /\ U[0] = 1 /\ \A k \in 1 .. n + 1 : U[k] = next[k] + U[k - 1]
  BY <1>1, <1>2, TailSums
<1>5. row \in [0 .. n -> Nat] /\ row[0] = 1 /\ \A k \in 1 .. n : next[k] = row[k - 1] + row[k]
  <2>1. \A k \in 1 .. n : k \in 1 .. n + 1 - 1
    OBVIOUS
  <2>2. row \in [0 .. n -> Nat] /\ row[0] = 1
    BY <1>1, <1>2, CombType
  <2>3. \A k \in 1 .. n + 1 - 1 : Comb[n + 1][k] = Comb[n + 1 - 1][k - 1] + Comb[n + 1 - 1][k]
    BY <1>1, CombType
  <2> QED BY <1>1, <1>2, <2>1, <2>2, <2>3
<1> DEFINE S == {k \in Nat : k \in 1 .. n => U[k] = T[k] + T[k - 1]}
<1>6. 0 \in S
  OBVIOUS
<1>7. ASSUME NEW k \in Nat, k \in S PROVE k + 1 \in S
  <2>1. SUFFICES ASSUME k + 1 \in 1 .. n PROVE U[k + 1] = T[k + 1] + T[k]
    OBVIOUS
  <2>2. k \in 0 .. n /\ k + 1 \in 0 .. n /\ k + 1 \in 1 .. n + 1 /\ k + 1 - 1 = k
    BY <2>1
  <2>3. T[k] \in Nat /\ row[k] \in Nat /\ row[k + 1] \in Nat
    BY <1>3, <1>5, <2>2
  <2>4. U[k + 1] = next[k + 1] + U[k] /\ T[k + 1] = row[k + 1] + T[k] /\ next[k + 1] = row[k] + row[k + 1]
    <3>1. U[k + 1] = next[k + 1] + U[k + 1 - 1]
      BY <1>4, <2>2
    <3>2. T[k + 1] = row[k + 1] + T[k + 1 - 1]
      BY <1>3, <2>1
    <3>3. next[k + 1] = row[k + 1 - 1] + row[k + 1]
      BY <1>5, <2>1
    <3> QED BY <2>2, <3>1, <3>2, <3>3
  <2>5. CASE k = 0
    BY <1>3, <1>4, <1>5, <2>3, <2>4, <2>5
  <2>6. CASE k # 0
    <3>1. k \in 1 .. n /\ k - 1 \in 0 .. n
      BY <2>2, <2>6
    <3>2. U[k] = T[k] + T[k - 1] /\ T[k] = row[k] + T[k - 1] /\ T[k - 1] \in Nat
      BY <1>3, <1>7, <3>1
    <3> QED BY <2>3, <2>4, <3>2
  <2> QED BY <2>5, <2>6
<1>8. Nat \subseteq S
  <2> HIDE DEF S
  <2> QED BY <1>6, <1>7, NatBySteps
<1> QED BY <1>2, <1>8

\* A pair more with the rarer outcome no rarer halves the p-value at most; a pair more
\* with the rarer outcome at least as rare does not raise it.
LEMMA TailDoubles ==
  ASSUME NEW n \in Nat, n + 1 <= MaxCases
  PROVE  /\ \A k \in 0 .. n : BinomialTail(n + 1)[k] <= 2 * BinomialTail(n)[k]
         /\ \A k \in 0 .. n - 1 : 2 * BinomialTail(n)[k] <= BinomialTail(n + 1)[k + 1]
<1>1. n \in 0 .. MaxCases /\ n + 1 \in 0 .. MaxCases
  BY TrialAssumption
<1>2. PICK T, U, row : T = BinomialTail(n) /\ U = BinomialTail(n + 1) /\ row = Comb[n]
  OBVIOUS
<1>3. row \in [0 .. n -> Nat]
  BY <1>1, <1>2, CombType
<1>4. T \in [0 .. n -> Nat] /\ T[0] = 1 /\ \A k \in 1 .. n : T[k] = row[k] + T[k - 1]
  BY <1>1, <1>2, TailSums
<1>5. U[0] = 1
  BY <1>1, <1>2, TailSums
<1>6. \A k \in 1 .. n : U[k] = T[k] + T[k - 1]
  BY <1>2, TailGrows
<1>7. \A k \in 1 .. n : T[k - 1] <= T[k] /\ T[k] \in Nat /\ T[k - 1] \in Nat
  <2>1. \A k \in 1 .. n : k \in 0 .. n /\ k - 1 \in 0 .. n
    OBVIOUS
  <2>2. \A k \in 1 .. n : T[k] \in Nat /\ T[k - 1] \in Nat /\ row[k] \in Nat
    BY <1>3, <1>4, <2>1
  <2>3. ASSUME NEW k \in 1 .. n PROVE T[k - 1] <= T[k]
    BY <1>4, <2>2
  <2> QED BY <2>2, <2>3
<1>8. ASSUME NEW k \in 0 .. n PROVE U[k] <= 2 * T[k]
  <2>1. CASE k = 0
    BY <1>4, <1>5, <2>1
  <2>2. CASE k \in 1 .. n
    BY <1>6, <1>7, <2>2
  <2> QED BY <2>1, <2>2
<1>9. ASSUME NEW k \in 0 .. n - 1 PROVE 2 * T[k] <= U[k + 1]
  <2>1. k + 1 \in 1 .. n /\ k + 1 - 1 = k
    OBVIOUS
  <2> QED BY <1>6, <1>7, <2>1
<1> QED BY <1>2, <1>8, <1>9

\* The greatest sum of a significant row.
Most(p, rounded) == IF rounded THEN (1001 * p) \div 40000 ELSE p \div 40

\* Twice the power allows twice the sum, and no more.
LEMMA Halves ==
  ASSUME NEW p \in Nat, NEW x \in Nat, NEW y \in Nat, NEW rounded \in BOOLEAN
  PROVE  /\ x <= Most(p, rounded) /\ y <= 2 * x => y <= Most(2 * p, rounded)
         /\ 2 * x <= y /\ y <= Most(2 * p, rounded) => x <= Most(p, rounded)
<1>1. /\ x <= p \div 40 /\ y <= 2 * x => y <= (2 * p) \div 40
      /\ 2 * x <= y /\ y <= (2 * p) \div 40 => x <= p \div 40
  OBVIOUS
<1>2. /\ x <= (1001 * p) \div 40000 /\ y <= 2 * x => y <= (1001 * (2 * p)) \div 40000
      /\ 2 * x <= y /\ y <= (1001 * (2 * p)) \div 40000 => x <= (1001 * p) \div 40000
  OBVIOUS
<1>3. CASE rounded
  BY <1>2, <1>3 DEF Most
<1>4. CASE ~rounded
  BY <1>1, <1>4 DEF Most
<1> QED BY <1>3, <1>4

Tables == {table \in [Outcomes -> Nat] : Cases(table) \in 1 .. MaxCases}

\* What significance means where the treatment is ahead.
LEMMA SignificantAhead ==
  ASSUME NEW table \in Tables, NEW rounded \in BOOLEAN, Lift(table) >= 0,
         NEW n, n = table["win"] + table["loss"], NEW l, l = table["loss"]
  PROVE  Significant(table, rounded) <=> n > 0 /\ BinomialTail(n)[l] <= Most(PowerOfTwo[n], rounded)
<1>1. table["win"] \in Nat /\ table["loss"] \in Nat
  BY DEF Tables, Outcomes
<1>2. (IF table["win"] < table["loss"] THEN table["win"] ELSE table["loss"]) = l
  BY <1>1 DEF Lift
<1>3. Significant(table, rounded) <=>
        /\ table["win"] + table["loss"] > 0
        /\ BinomialTail(table["win"] + table["loss"])
             [IF table["win"] < table["loss"] THEN table["win"] ELSE table["loss"]]
             <= Most(PowerOfTwo[table["win"] + table["loss"]], rounded)
  BY DEF Significant, Most
<1> QED BY <1>2, <1>3

LEMMA WinKeepsSignificance ==
  ASSUME NEW table \in Tables, NEW more \in Tables, NEW rounded \in BOOLEAN,
         more = [table EXCEPT !["win"] = @ + 1],
         Lift(table) >= 0, Significant(table, rounded)
  PROVE  Significant(more, rounded)
<1>1. PICK n, l : n = table["win"] + table["loss"] /\ l = table["loss"]
  OBVIOUS
<1>2. /\ table["win"] \in Nat /\ n \in Nat /\ l \in 0 .. n /\ n > 0 /\ n + 1 <= MaxCases
      /\ more["win"] + more["loss"] = n + 1 /\ more["loss"] = l /\ Lift(more) >= 0
  BY <1>1, TrialAssumption DEF Tables, Outcomes, Cases, Lift, Significant
<1>3. n \in 0 .. MaxCases /\ n + 1 \in 0 .. MaxCases /\ n + 1 \in 1 .. MaxCases /\ n + 1 - 1 = n /\ l \in 0 .. n + 1
  BY <1>2, TrialAssumption
<1>4. PICK p, x, y : p = PowerOfTwo[n] /\ x = BinomialTail(n)[l] /\ y = BinomialTail(n + 1)[l]
  OBVIOUS
<1>5. p \in Nat /\ PowerOfTwo[n + 1] = 2 * p
  BY <1>3, <1>4, PowerDoubles
<1>6. x \in Nat /\ y \in Nat
  BY <1>2, <1>3, <1>4, TailSums
<1>7. y <= 2 * x
  BY <1>2, <1>4, TailDoubles
<1>8. x <= Most(p, rounded)
  BY <1>1, <1>4, SignificantAhead
<1>9. y <= Most(2 * p, rounded)
  BY <1>5, <1>6, <1>7, <1>8, Halves
<1>10. Significant(more, rounded) <=>
         n + 1 > 0 /\ BinomialTail(n + 1)[l] <= Most(PowerOfTwo[n + 1], rounded)
  BY <1>2, SignificantAhead
<1> QED BY <1>2, <1>4, <1>5, <1>9, <1>10

LEMMA LossMakesNoSignificance ==
  ASSUME NEW table \in Tables, NEW more \in Tables, NEW rounded \in BOOLEAN,
         more = [table EXCEPT !["loss"] = @ + 1],
         Lift(more) > 0, Significant(more, rounded)
  PROVE  Significant(table, rounded)
<1>1. PICK n, l : n = table["win"] + table["loss"] /\ l = table["loss"]
  OBVIOUS
<1>2. /\ table["win"] \in Nat /\ n \in Nat /\ l \in 0 .. n - 1 /\ n > 0 /\ n + 1 <= MaxCases
      /\ more["win"] + more["loss"] = n + 1 /\ more["loss"] = l + 1 /\ Lift(table) >= 0
      /\ Lift(more) >= 0
  BY <1>1, TrialAssumption DEF Tables, Outcomes, Cases, Lift
<1>3. /\ n \in 0 .. MaxCases /\ n + 1 \in 0 .. MaxCases /\ n + 1 \in 1 .. MaxCases /\ n + 1 - 1 = n
      /\ l \in 0 .. n /\ l + 1 \in 0 .. n + 1
  BY <1>2, TrialAssumption
<1>4. PICK p, x, y : p = PowerOfTwo[n] /\ x = BinomialTail(n)[l] /\ y = BinomialTail(n + 1)[l + 1]
  OBVIOUS
<1>5. p \in Nat /\ PowerOfTwo[n + 1] = 2 * p
  BY <1>3, <1>4, PowerDoubles
<1>6. x \in Nat /\ y \in Nat
  BY <1>2, <1>3, <1>4, TailSums
<1>7. 2 * x <= y
  BY <1>2, <1>4, TailDoubles
<1>8. y <= Most(2 * p, rounded)
  <2>1. Significant(more, rounded) <=>
          n + 1 > 0 /\ BinomialTail(n + 1)[l + 1] <= Most(PowerOfTwo[n + 1], rounded)
    BY <1>2, SignificantAhead
  <2> QED BY <1>4, <1>5, <2>1
<1>9. x <= Most(p, rounded)
  BY <1>5, <1>6, <1>7, <1>8, Halves
<1> QED BY <1>1, <1>2, <1>4, <1>9, SignificantAhead

\* Floats decide only where a lift meets its threshold exactly.
LEMMA ReachesMeans ==
  ASSUME NEW table, Lift(table) \in Int, Cases(table) \in Int,
         NEW percent \in Nat, NEW reached \in Reaches(table, percent)
  PROVE  /\ reached => 100 * Lift(table) >= percent * Cases(table)
         /\ 100 * Lift(table) > percent * Cases(table) => reached
<1>1. PICK product : product = percent * Cases(table)
  OBVIOUS
<1>2. PICK margin : margin = 100 * Lift(table) - product
  OBVIOUS
<1>3. reached \in IF margin = 0 THEN BOOLEAN ELSE {margin > 0}
  BY <1>1, <1>2, Zenon DEF Reaches
<1>4. product \in Int
  BY <1>1
<1>5. CASE margin = 0
  <2>1. reached \in BOOLEAN
    BY <1>3, <1>5, Zenon
  <2> QED BY <1>1, <1>2, <1>4, <1>5, <2>1
<1>6. CASE margin # 0
  <2>1. reached = (margin > 0)
    BY <1>3, <1>6, Zenon
  <2>2. (reached => margin > 0) /\ (margin > 0 => reached)
    BY <2>1, Zenon
  <2>3. (margin > 0 => 100 * Lift(table) >= product) /\ (100 * Lift(table) > product => margin > 0)
    BY <1>2, <1>4
  <2> QED BY <1>1, <2>2, <2>3
<1> QED BY <1>5, <1>6

DecisionOf(table, spent, enough, large) ==
  IF ~enough \/ spent > 0 THEN "reject" ELSE IF Significant(table, TRUE) \/ large THEN "ship" ELSE "hold"

\* The decision between what the two lifts force and what they allow.
LEMMA DecisionFacts ==
  ASSUME NEW table \in Tables, NEW spent \in Int, NEW d \in Decisions(table, spent)
  PROVE  /\ d \in {"ship", "hold", "reject"} /\ Rank(d) \in 0 .. 2
         /\ Rank(d) >= 1 => spent <= 0 /\ 100 * Lift(table) >= 8 * Cases(table)
         /\ Rank(d) = 2 => Significant(table, TRUE) \/ 100 * Lift(table) >= 15 * Cases(table)
         /\ spent <= 0 /\ 100 * Lift(table) > 8 * Cases(table) =>
              /\ Rank(d) >= 1
              /\ Significant(table, TRUE) \/ 100 * Lift(table) > 15 * Cases(table) => Rank(d) = 2
<1>1. PICK enough \in Reaches(table, 8), large \in Reaches(table, 15) :
        d = DecisionOf(table, spent, enough, large)
  <2>1. Decisions(table, spent) =
          {DecisionOf(table, spent, enough, large) : enough \in Reaches(table, 8), large \in Reaches(table, 15)}
    BY DEF Decisions, DecisionOf
  <2> QED BY <2>1
<1>2. Lift(table) \in Int /\ Cases(table) \in Int
  BY TrialAssumption DEF Tables, Outcomes, Lift, Cases
<1>3. /\ enough => 100 * Lift(table) >= 8 * Cases(table)
      /\ 100 * Lift(table) > 8 * Cases(table) => enough
  BY <1>2, ReachesMeans
<1>4. /\ large => 100 * Lift(table) >= 15 * Cases(table)
      /\ 100 * Lift(table) > 15 * Cases(table) => large
  BY <1>2, ReachesMeans
<1>5. (spent > 0 /\ ~(spent <= 0)) \/ (spent <= 0 /\ ~(spent > 0))
  OBVIOUS
<1>6. Rank("ship") = 2 /\ Rank("hold") = 1 /\ Rank("reject") = 0
  BY DEF Rank
<1>7. \/ d = "reject" /\ (~enough \/ spent > 0)
      \/ d = "hold" /\ enough /\ ~(spent > 0) /\ ~(Significant(table, TRUE) \/ large)
      \/ d = "ship" /\ enough /\ ~(spent > 0) /\ (Significant(table, TRUE) \/ large)
  BY <1>1, Zenon DEF DecisionOf
<1>8. PICK r : r = Rank(d)
  OBVIOUS
<1> DEFINE AtLeast(percent) == 100 * Lift(table) >= percent * Cases(table)
           MoreThan(percent) == 100 * Lift(table) > percent * Cases(table)
           Clear == Significant(table, TRUE)
           Facts(x) ==
             /\ d \in {"ship", "hold", "reject"}
             /\ x \in 0 .. 2
             /\ x >= 1 => spent <= 0 /\ AtLeast(8)
             /\ x = 2 => Clear \/ AtLeast(15)
             /\ spent <= 0 /\ MoreThan(8) => x >= 1 /\ (Clear \/ MoreThan(15) => x = 2)
<1>9. /\ enough => AtLeast(8)
      /\ MoreThan(8) => enough
      /\ large => AtLeast(15)
      /\ MoreThan(15) => large
  BY <1>3, <1>4
<1>10. 0 \in 0 .. 2 /\ 1 \in 0 .. 2 /\ 2 \in 0 .. 2 /\ ~(0 >= 1) /\ 1 >= 1 /\ 2 >= 1 /\ 0 # 2 /\ 1 # 2
  OBVIOUS
<1>11. Facts(r)
  <2> HIDE DEF AtLeast, MoreThan, Clear
  <2>1. CASE d = "reject" /\ (~enough \/ spent > 0)
    <3>1. Facts(0)
      BY <1>5, <1>9, <1>10, <2>1, Zenon
    <3> QED BY <1>6, <1>8, <2>1, <3>1, Zenon
  <2>2. CASE d = "hold" /\ enough /\ ~(spent > 0) /\ ~(Clear \/ large)
    <3>1. Facts(1)
      BY <1>5, <1>9, <1>10, <2>2, Zenon
    <3> QED BY <1>6, <1>8, <2>2, <3>1, Zenon
  <2>3. CASE d = "ship" /\ enough /\ ~(spent > 0) /\ (Clear \/ large)
    <3>1. Facts(2)
      BY <1>5, <1>9, <1>10, <2>3, Zenon
    <3> QED BY <1>6, <1>8, <2>3, <3>1, Zenon
  <2>4. \/ d = "reject" /\ (~enough \/ spent > 0)
        \/ d = "hold" /\ enough /\ ~(spent > 0) /\ ~(Clear \/ large)
        \/ d = "ship" /\ enough /\ ~(spent > 0) /\ (Clear \/ large)
    BY <1>7 DEF Clear
  <2> QED BY <2>1, <2>2, <2>3, <2>4
<1> QED BY <1>8, <1>11

\* The decision is always one of the table and the tokens as they are.
TrialShape ==
  /\ pairs \in Tables /\ pairs \in [Outcomes -> 0 .. MaxCases]
  /\ overspend \in -MaxOverspend .. MaxOverspend
  /\ decision \in Decisions(pairs, overspend)

\* A table and one with a case more.
LEMMA CaseMore ==
  ASSUME NEW table \in Tables, NEW outcome \in Outcomes, Cases(table) < MaxCases,
         NEW more, more = [table EXCEPT ![outcome] = @ + 1]
  PROVE  /\ more \in Tables /\ Cases(more) = Cases(table) + 1
         /\ \A o \in Outcomes : more[o] = IF o = outcome THEN table[o] + 1 ELSE table[o]
<1>1. \A o \in Outcomes : table[o] \in Nat /\ more[o] = IF o = outcome THEN table[o] + 1 ELSE table[o]
  BY DEF Tables
<1>2. more \in [Outcomes -> Nat]
  BY <1>1 DEF Tables
<1>3. Cases(more) = Cases(table) + 1
  BY <1>1 DEF Cases, Outcomes
<1>4. Cases(table) \in Int
  BY TrialAssumption DEF Tables
<1> QED BY <1>1, <1>2, <1>3, <1>4, TrialAssumption DEF Tables

\* No outcome has more cases than the table.
LEMMA OutcomesAreCases ==
  ASSUME NEW table \in Tables
  PROVE  table \in [Outcomes -> 0 .. MaxCases]
<1>1. \A o \in Outcomes : table[o] \in Nat /\ table[o] <= Cases(table)
  BY DEF Tables, Cases, Outcomes
<1> QED BY <1>1, TrialAssumption DEF Tables

LEMMA FirstTable ==
  ASSUME NEW outcome \in Outcomes
  PROVE  OneCase(outcome) \in Tables
<1>1. OneCase(outcome) \in [Outcomes -> Nat]
  BY DEF OneCase
<1>2. Cases(OneCase(outcome)) = 1
  BY DEF OneCase, Cases, Outcomes
<1> QED BY <1>1, <1>2, TrialAssumption DEF Tables

LEMMA TrialStep ==
  ASSUME TrialShape, NEW outcome \in Outcomes, NEW spent \in {-1, 0, 1}, AddCase(outcome, spent)
  PROVE  TrialShape'
<1>1. pairs' \in Tables
  BY CaseMore DEF TrialShape, AddCase
<1> QED BY <1>1, OutcomesAreCases DEF TrialShape, AddCase

LEMMA TrialInductive == TrialSpec => []TrialShape
<1>1. TrialInit => TrialShape
  BY FirstTable, OutcomesAreCases DEF TrialInit, TrialShape
<1>2. TrialShape /\ [TrialNext]_trialVars => TrialShape'
  <2>1. TrialShape /\ TrialNext => TrialShape'
    BY TrialStep DEF TrialNext
  <2>2. TrialShape /\ UNCHANGED trialVars => TrialShape'
    BY DEF TrialShape, trialVars
  <2> QED BY <2>1, <2>2
<1> QED BY <1>1, <1>2, PTL DEF TrialSpec

\* Every variable of the trial keeps its type.
THEOREM TrialTypeCorrect == TrialSpec => []TrialTypeOK
<1>1. TrialShape => TrialTypeOK
  <2>1. SUFFICES ASSUME TrialShape PROVE TrialTypeOK
    OBVIOUS
  <2>2. overspend \in Int
    BY <2>1, TrialAssumption DEF TrialShape
  <2>3. decision \in {"ship", "hold", "reject"}
    BY <2>1, <2>2, DecisionFacts DEF TrialShape
  <2> QED BY <2>1, <2>3 DEF TrialShape, TrialTypeOK, Tables
<1> QED BY <1>1, TrialInductive, PTL

\* The facts of a decision, with its rank and both lifts by name.
Weighed(table, spent, rank) ==
  /\ rank \in 0 .. 2
  /\ rank >= 1 => spent <= 0 /\ 100 * Lift(table) >= 8 * Cases(table)
  /\ rank = 2 => Significant(table, TRUE) \/ 100 * Lift(table) >= 15 * Cases(table)
  /\ spent <= 0 /\ 100 * Lift(table) > 8 * Cases(table) =>
       /\ rank >= 1
       /\ Significant(table, TRUE) \/ 100 * Lift(table) > 15 * Cases(table) => rank = 2

\* One case more, with what it does to lift, cost and significance.
LEMMA WinRaises ==
  ASSUME NEW table \in Tables, NEW more \in Tables, more = [table EXCEPT !["win"] = @ + 1],
         NEW spent \in Int, NEW later \in Int, later <= spent,
         NEW rank, Weighed(table, spent, rank), NEW next, Weighed(more, later, next)
  PROVE  next >= rank
<1>1. Lift(more) = Lift(table) + 1 /\ Cases(more) = Cases(table) + 1 /\ Lift(table) \in Int /\ Cases(table) \in Nat \ {0}
  BY TrialAssumption DEF Tables, Outcomes, Lift, Cases
<1>2. CASE rank = 0
  BY <1>2 DEF Weighed
<1>3. CASE rank # 0
  <2>1. rank >= 1 /\ spent <= 0 /\ 100 * Lift(table) >= 8 * Cases(table)
    BY <1>3 DEF Weighed
  <2>2. Lift(table) >= 0 /\ 100 * Lift(more) > 8 * Cases(more) /\ later <= 0
    BY <1>1, <2>1
  <2>3. next >= 1 /\ next \in 0 .. 2
    BY <2>2 DEF Weighed
  <2>4. CASE rank = 2
    <3>1. Significant(table, TRUE) \/ 100 * Lift(table) >= 15 * Cases(table)
      BY <2>4 DEF Weighed
    <3>2. Significant(table, TRUE) => Significant(more, TRUE)
      BY <2>2, WinKeepsSignificance
    <3>3. 100 * Lift(table) >= 15 * Cases(table) => 100 * Lift(more) > 15 * Cases(more)
      BY <1>1
    <3>4. next = 2
      BY <2>2, <3>1, <3>2, <3>3 DEF Weighed
    <3> QED BY <2>4, <3>4
  <2> QED BY <2>3, <2>4 DEF Weighed
<1> QED BY <1>2, <1>3

LEMMA LossLowers ==
  ASSUME NEW table \in Tables, NEW more \in Tables, more = [table EXCEPT !["loss"] = @ + 1],
         NEW spent \in Int, NEW later \in Int, later >= spent,
         NEW rank, Weighed(table, spent, rank), NEW next, Weighed(more, later, next)
  PROVE  next <= rank
<1>1. Lift(table) = Lift(more) + 1 /\ Cases(more) = Cases(table) + 1 /\ Lift(more) \in Int /\ Cases(table) \in Nat \ {0}
  BY TrialAssumption DEF Tables, Outcomes, Lift, Cases
<1>2. CASE next = 0
  BY <1>2 DEF Weighed
<1>3. CASE next # 0
  <2>1. next >= 1 /\ later <= 0 /\ 100 * Lift(more) >= 8 * Cases(more)
    BY <1>3 DEF Weighed
  <2>2. Lift(more) > 0 /\ 100 * Lift(table) > 8 * Cases(table) /\ spent <= 0
    BY <1>1, <2>1
  <2>3. rank >= 1 /\ rank \in 0 .. 2
    BY <2>2 DEF Weighed
  <2>4. CASE next = 2
    <3>1. Significant(more, TRUE) \/ 100 * Lift(more) >= 15 * Cases(more)
      BY <2>4 DEF Weighed
    <3>2. Significant(more, TRUE) => Significant(table, TRUE)
      BY <2>2, LossMakesNoSignificance
    <3>3. 100 * Lift(more) >= 15 * Cases(more) => 100 * Lift(table) > 15 * Cases(table)
      BY <1>1
    <3>4. rank = 2
      BY <2>2, <3>1, <3>2, <3>3 DEF Weighed
    <3> QED BY <2>4, <3>4
  <2> QED BY <2>3, <2>4 DEF Weighed
<1> QED BY <1>2, <1>3

LEMMA TieLowers ==
  ASSUME NEW table \in Tables, NEW more \in Tables, more["win"] = table["win"], more["loss"] = table["loss"],
         Cases(more) = Cases(table) + 1,
         NEW spent \in Int, NEW later \in Int, later >= spent,
         NEW rank, Weighed(table, spent, rank), NEW next, Weighed(more, later, next)
  PROVE  next <= rank
<1>1. Lift(more) = Lift(table) /\ Lift(table) \in Int /\ Cases(table) \in Nat \ {0}
  BY TrialAssumption DEF Tables, Outcomes, Lift, Cases
<1>2. Significant(more, TRUE) => Significant(table, TRUE)
  BY DEF Significant
<1>3. CASE next = 0
  BY <1>3 DEF Weighed
<1>4. CASE next # 0
  <2>1. next >= 1 /\ later <= 0 /\ 100 * Lift(more) >= 8 * Cases(more)
    BY <1>4 DEF Weighed
  <2>2. 100 * Lift(table) > 8 * Cases(table) /\ spent <= 0
    BY <1>1, <2>1
  <2>3. rank >= 1 /\ rank \in 0 .. 2
    BY <2>2 DEF Weighed
  <2>4. CASE next = 2
    <3>1. Significant(more, TRUE) \/ 100 * Lift(more) >= 15 * Cases(more)
      BY <2>4 DEF Weighed
    <3>2. 100 * Lift(more) >= 15 * Cases(more) => 100 * Lift(table) > 15 * Cases(table)
      BY <1>1
    <3>3. rank = 2
      BY <1>2, <2>2, <3>1, <3>2 DEF Weighed
    <3> QED BY <2>4, <3>3
  <2> QED BY <2>3, <2>4 DEF Weighed
<1> QED BY <1>3, <1>4

\* The ship rule follows the evidence (see EvidenceMovesDecision): for a trial of any
\* length, a case that only the treatment passes at no more cost never lowers the
\* decision, one that only the baseline passes never raises it.
THEOREM EvidenceDecides == TrialSpec => EvidenceMovesDecision
<1> DEFINE Moves ==
             /\ (pairs'["win"] > pairs["win"] /\ overspend' <= overspend) => Rank(decision') >= Rank(decision)
             /\ (pairs'["loss"] > pairs["loss"] /\ overspend' >= overspend) => Rank(decision') <= Rank(decision)
             /\ (Lift(pairs') = Lift(pairs) /\ overspend' >= overspend) => Rank(decision') <= Rank(decision)
             /\ (pairs'["win"] > pairs["win"] /\ ScorecardVerdict(pairs) = "PRIMARY_ENDPOINT_SIGNIFICANT") =>
                  ScorecardVerdict(pairs') = ScorecardVerdict(pairs)
<1>1. ASSUME TrialShape, TrialNext PROVE Moves
  <2>1. PICK outcome \in Outcomes, spent \in {-1, 0, 1} : AddCase(outcome, spent)
    BY <1>1 DEF TrialNext
  <2>2. TrialShape'
    BY <1>1, <2>1, TrialStep
  <2>3. overspend \in Int /\ overspend' \in Int
    BY <1>1, <2>2, TrialAssumption DEF TrialShape
  <2>4. PICK table, more, rank, next :
          table = pairs /\ more = pairs' /\ rank = Rank(decision) /\ next = Rank(decision')
    OBVIOUS
  <2>5. table \in Tables /\ more \in Tables /\ more = [table EXCEPT ![outcome] = @ + 1]
    BY <1>1, <2>1, <2>2, <2>4 DEF TrialShape, AddCase
  <2>6. Weighed(table, overspend, rank) /\ Weighed(more, overspend', next)
    BY <1>1, <2>2, <2>3, <2>4, DecisionFacts DEF TrialShape, Weighed
  <2>7. /\ Cases(more) = Cases(table) + 1
        /\ \A o \in Outcomes : more[o] = IF o = outcome THEN table[o] + 1 ELSE table[o]
        /\ \A o \in Outcomes : table[o] \in Nat
    <3>1. Cases(table) < MaxCases /\ table \in [Outcomes -> Nat]
      BY <2>1, <2>4, <2>5 DEF AddCase, Tables
    <3> QED BY <2>5, <3>1, CaseMore
  <2>8. ASSUME more["win"] > table["win"] PROVE outcome = "win"
    BY <2>7, <2>8 DEF Outcomes
  <2>9. ASSUME more["loss"] > table["loss"] PROVE outcome = "loss"
    BY <2>7, <2>9 DEF Outcomes
  <2>10. ASSUME Lift(more) = Lift(table) PROVE more["win"] = table["win"] /\ more["loss"] = table["loss"]
    BY <2>7, <2>10 DEF Outcomes, Lift
  <2>11. ASSUME more["win"] > table["win"], overspend' <= overspend PROVE next >= rank
    BY <2>3, <2>5, <2>6, <2>8, <2>11, WinRaises
  <2>12. ASSUME more["loss"] > table["loss"], overspend' >= overspend PROVE next <= rank
    BY <2>3, <2>5, <2>6, <2>9, <2>12, LossLowers
  <2>13. ASSUME Lift(more) = Lift(table), overspend' >= overspend PROVE next <= rank
    BY <2>3, <2>5, <2>6, <2>7, <2>10, <2>13, TieLowers
  <2>14. ASSUME more["win"] > table["win"], ScorecardVerdict(table) = "PRIMARY_ENDPOINT_SIGNIFICANT"
         PROVE  ScorecardVerdict(more) = ScorecardVerdict(table)
    <3>1. Significant(table, ~Scipy) /\ Lift(table) >= 0
      BY <2>14 DEF ScorecardVerdict
    <3>2. outcome = "win" /\ more = [table EXCEPT !["win"] = @ + 1]
      BY <2>5, <2>8, <2>14
    <3>3. Lift(more) >= 0
      BY <2>7, <3>1, <3>2 DEF Lift, Outcomes
    <3>4. Significant(more, ~Scipy)
      BY <2>5, <3>1, <3>2, WinKeepsSignificance, TrialAssumption
    <3> QED BY <2>14, <3>3, <3>4 DEF ScorecardVerdict
  <2> QED BY <2>4, <2>11, <2>12, <2>13, <2>14
<1>2. TrialShape /\ [TrialNext]_trialVars => [Moves]_trialVars
  BY <1>1
<1> HIDE DEF Moves
<1>3. TrialSpec => [][Moves]_trialVars
  BY <1>2, TrialInductive, PTL DEF TrialSpec
<1> QED BY <1>3 DEF EvidenceMovesDecision, Moves
================================================================================
