----------------------------- MODULE ThingsData -----------------------------
(***************************************************************************)
(* Facts about the data of Things and Inheritance: symbols and their ids,  *)
(* the maps of objects, the properties of an object in the order they were *)
(* put, mixed objects.                                                     *)
(***************************************************************************)
EXTENDS ThingsInvariant, FiniteSetTheorems, WellFoundedInduction, TLAPS

-----------------------------------------------------------------------------
(* Sequences.                                                               *)

(* What appending leaves.                                                   *)
LEMMA AppendFacts ==
  ASSUME NEW S, NEW s \in Seq(S), NEW x \in S
  PROVE  /\ Append(s, x) \in Seq(S)
         /\ Len(Append(s, x)) = Len(s) + 1
         /\ \A i \in 1..Len(s) : Append(s, x)[i] = s[i]
         /\ Append(s, x)[Len(s) + 1] = x
OBVIOUS

(* What is left without the last element.                                   *)
LEMMA FrontFacts ==
  ASSUME NEW S, NEW s \in Seq(S), s # <<>>
  PROVE  /\ SubSeq(s, 1, Len(s) - 1) \in Seq(S)
         /\ Len(SubSeq(s, 1, Len(s) - 1)) = Len(s) - 1
         /\ \A i \in 1..(Len(s) - 1) : SubSeq(s, 1, Len(s) - 1)[i] = s[i]
<1>1. Len(s) \in Nat \ {0}  OBVIOUS
<1>2. PICK n \in 0..Len(s) : n = Len(s) - 1  BY <1>1
<1>3. /\ SubSeq(s, 1, n) \in Seq(S) /\ Len(SubSeq(s, 1, n)) = n
      /\ \A i \in 1..n : SubSeq(s, 1, n)[i] = s[i]
  OBVIOUS
<1> QED  BY <1>2, <1>3

(* What is left without the first.                                          *)
LEMMA TailFacts ==
  ASSUME NEW S, NEW s \in Seq(S), s # <<>>
  PROVE  /\ Head(s) \in S /\ Head(s) = s[1]
         /\ Tail(s) \in Seq(S)
         /\ Len(Tail(s)) = Len(s) - 1
         /\ \A i \in 1..(Len(s) - 1) : Tail(s)[i] = s[i + 1]
OBVIOUS

(* A sequence over a set is one over any larger set.                        *)
LEMMA SeqGrows ==
  ASSUME NEW S, NEW T, S \subseteq T, NEW s \in Seq(S)
  PROVE  s \in Seq(T)
OBVIOUS

-----------------------------------------------------------------------------
(* Symbols.                                                                 *)

(* The symbols of the runtime are different ones.                           *)
LEMMA NamesDiffer ==
  /\ DOMAIN SYMBOLS = 1..18 /\ Len(SYMBOLS) = 18
  /\ \A i, j \in 1..18 : SYMBOLS[i] = SYMBOLS[j] => i = j
BY DEF SYMBOLS

(* initThing numbers them from where the counter is.                        *)
LEMMA NumberOf ==
  ASSUME NEW i \in 1..18, program.before \in Nat
  PROVE  SYM(SYMBOLS[i]) = program.before + i - 1
BY NamesDiffer DEF SYM

(* Each by its number.                                                      *)
LEMMA Numbers ==
  ASSUME program.before \in Nat
  PROVE  /\ SYM("+") = program.before
         /\ SYM("-") = program.before + 1
         /\ SYM("*") = program.before + 2
         /\ SYM("/") = program.before + 3
         /\ SYM("==") = program.before + 4
         /\ SYM("!=") = program.before + 5
         /\ SYM("<") = program.before + 6
         /\ SYM("<=") = program.before + 7
         /\ SYM(">") = program.before + 8
         /\ SYM(">=") = program.before + 9
         /\ SYM("and") = program.before + 10
         /\ SYM("or") = program.before + 11
         /\ SYM("not") = program.before + 12
         /\ SYM("get") = program.before + 13
         /\ SYM(".") = program.before + 14
         /\ SYM("call") = program.before + 15
         /\ SYM("responds_to") = program.before + 16
         /\ SYM("unpack") = program.before + 17
<1>1. SYMBOLS[1] = "+" /\ SYMBOLS[2] = "-" /\ SYMBOLS[3] = "*" /\ SYMBOLS[4] = "/"
      /\ SYMBOLS[5] = "==" /\ SYMBOLS[6] = "!="
  BY DEF SYMBOLS
<1>2. SYMBOLS[7] = "<" /\ SYMBOLS[8] = "<=" /\ SYMBOLS[9] = ">" /\ SYMBOLS[10] = ">="
      /\ SYMBOLS[11] = "and" /\ SYMBOLS[12] = "or"
  BY DEF SYMBOLS
<1>3. SYMBOLS[13] = "not" /\ SYMBOLS[14] = "get" /\ SYMBOLS[15] = "." /\ SYMBOLS[16] = "call"
      /\ SYMBOLS[17] = "responds_to" /\ SYMBOLS[18] = "unpack"
  BY DEF SYMBOLS
<1>4. \A i \in 1..18 : SYM(SYMBOLS[i]) = program.before + i - 1  BY NumberOf
<1>5. /\ SYM(SYMBOLS[1]) = program.before /\ SYM(SYMBOLS[2]) = program.before + 1
      /\ SYM(SYMBOLS[3]) = program.before + 2 /\ SYM(SYMBOLS[4]) = program.before + 3
      /\ SYM(SYMBOLS[5]) = program.before + 4 /\ SYM(SYMBOLS[6]) = program.before + 5
  BY <1>4
<1>6. /\ SYM(SYMBOLS[7]) = program.before + 6 /\ SYM(SYMBOLS[8]) = program.before + 7
      /\ SYM(SYMBOLS[9]) = program.before + 8 /\ SYM(SYMBOLS[10]) = program.before + 9
      /\ SYM(SYMBOLS[11]) = program.before + 10 /\ SYM(SYMBOLS[12]) = program.before + 11
  BY <1>4
<1>7. /\ SYM(SYMBOLS[13]) = program.before + 12 /\ SYM(SYMBOLS[14]) = program.before + 13
      /\ SYM(SYMBOLS[15]) = program.before + 14 /\ SYM(SYMBOLS[16]) = program.before + 15
      /\ SYM(SYMBOLS[17]) = program.before + 16 /\ SYM(SYMBOLS[18]) = program.before + 17
  BY <1>4
<1> QED  BY <1>1, <1>2, <1>3, <1>5, <1>6, <1>7

(* Two numbers closer than b have different remainders.                     *)
LEMMA ModApart ==
  ASSUME NEW b \in Nat \ {0}, NEW n \in Nat, NEW m \in Nat, n % b = m % b, n < m, m < n + b
  PROVE  FALSE
<1> DEFINE q == n \div b
           r == m \div b
<1>1. q \in Int /\ r \in Int /\ n = b * q + (n % b) /\ m = b * r + (m % b)
  OBVIOUS
<1>2. m - n = b * r - b * q  BY <1>1
<1> HIDE DEF q, r
<1>3. b * r - b * q = b * (r - q)  BY <1>1
<1>4. CASE r - q <= 0
  <2>1. b * (r - q) <= 0  BY <1>1, <1>4
  <2> QED  BY <2>1, <1>2, <1>3
<1>5. CASE r - q >= 1
  <2>1. b * (r - q) >= b  BY <1>1, <1>5
  <2> QED  BY <2>1, <1>2, <1>3
<1> QED  BY <1>1, <1>4, <1>5

(* What a symbol that has been made looks like.                             *)
LEMMA CreatedFacts ==
  ASSUME NEW s \in Created, program.before \in Nat, symbolId \in Nat
  PROVE  /\ s.type = "SYMBOL"
         /\ s.nth \in program.before..(symbolId - 1)
         /\ s.arity \in 0..2
         /\ s.id = Identity(s.nth) /\ s.id \in Nat
         /\ s = Symbol(s.id, s.arity, s.nth)
         /\ Key(s) = s.nth % ByteSize
<1>1. PICK arity \in 0..2, n \in program.before..(symbolId - 1) : s = Symbol(Identity(n), arity, n)
  BY DEF Created
<1>2. n \in Nat  OBVIOUS
<1>3. n % ByteSize \in Nat /\ (n % ByteSize) % ByteSize = n % ByteSize
  BY <1>2, SizeAssumption
<1>4. Identity(n) \in Nat /\ Identity(n) % ByteSize = n % ByteSize
  BY <1>2, <1>3 DEF Identity
<1>5. /\ s.type = "SYMBOL" /\ s.nth = n /\ s.arity = arity /\ s.id = Identity(n)
      /\ s = Symbol(s.id, s.arity, s.nth)
  BY <1>1 DEF Symbol
<1> QED  BY <1>4, <1>5 DEF Key

(* As long as the ids fit, symbols made at different times have different   *)
(* low bytes.                                                               *)
LEMMA KeysApart ==
  ASSUME NEW s \in Created, NEW t \in Created, program.before \in Nat, symbolId \in Nat,
         IdsFitByte, Key(s) = Key(t)
  PROVE  s.nth = t.nth
<1>1. s.nth \in program.before..(symbolId - 1) /\ Key(s) = s.nth % ByteSize
  BY CreatedFacts
<1>2. t.nth \in program.before..(symbolId - 1) /\ Key(t) = t.nth % ByteSize
  BY CreatedFacts
<1>3. s.nth \in Nat /\ t.nth \in Nat /\ s.nth % ByteSize = t.nth % ByteSize
  <2>1. s.nth % ByteSize = t.nth % ByteSize  BY <1>1, <1>2, Zenon
  <2> QED  BY <1>1, <1>2, <2>1
<1>4. s.nth < t.nth + ByteSize /\ t.nth < s.nth + ByteSize
  BY <1>1, <1>2, SizeAssumption DEF IdsFitByte
<1>5. ~ (s.nth < t.nth)  BY <1>3, <1>4, ModApart, SizeAssumption
<1>6. ~ (t.nth < s.nth)  BY <1>3, <1>4, ModApart, SizeAssumption
<1> QED  BY <1>3, <1>5, <1>6

(* The symbols of the runtime are among those made.                         *)
LEMMA OperatorsCreated ==
  ASSUME NEW i \in 1..18, program.before \in Nat, symbolId \in Nat,
         symbolId >= program.before + 18
  PROVE  /\ Operator(SYMBOLS[i]) \in Created
         /\ Operator(SYMBOLS[i]).nth = program.before + i - 1
         /\ Operator(SYMBOLS[i]).id = program.before + i - 1
<1>1. SYM(SYMBOLS[i]) = program.before + i - 1  BY NumberOf
<1> DEFINE n == program.before + i - 1
<1>2. n \in program.before..(symbolId - 1) /\ Identity(n) = n  BY NamesDiffer DEF Identity
<1>3. ArityOf(SYMBOLS[i]) \in 0..2  BY DEF ArityOf
<1>4. Operator(SYMBOLS[i]) = Symbol(Identity(n), ArityOf(SYMBOLS[i]), n)
  BY <1>1, <1>2 DEF Operator
<1>5. Operator(SYMBOLS[i]) \in Created  BY <1>2, <1>3, <1>4 DEF Created
<1> QED  BY <1>1, <1>5 DEF Operator, Symbol
-----------------------------------------------------------------------------
(* Objects.                                                                 *)

(* A non-empty set of naturals has a least element.                         *)
LEMMA LeastExists ==
  ASSUME NEW S \in SUBSET Nat, S # {}
  PROVE  \E i \in S : \A j \in S : i <= j
<1>1. \E x \in S : \A y \in S : <<y, x>> \notin OpToRel(<, Nat)
  BY NatLessThanWellFounded, WFMin
<1>2. PICK i \in S : \A y \in S : <<y, i>> \notin OpToRel(<, Nat)  BY <1>1
<1>3. ASSUME NEW j \in S PROVE i <= j
  <2>1. ~ (j < i)  BY <1>2 DEF OpToRel
  <2> QED  BY <2>1
<1> QED  BY <1>3

(* A bounded one has a greatest.                                            *)
LEMMA GreatestExists ==
  ASSUME NEW n \in Nat, NEW S \in SUBSET (1..n), S # {}
  PROVE  \E i \in S : \A j \in S : j <= i
<1> DEFINE D == {n - i : i \in S}
<1>1. D \in SUBSET Nat /\ D # {}
  <2>1. PICK i \in S : TRUE  OBVIOUS
  <2>2. n - i \in D  OBVIOUS
  <2>3. \A j \in S : n - j \in Nat  OBVIOUS
  <2> QED  BY <2>2, <2>3
<1>2. PICK d \in D : \A e \in D : d <= e  BY <1>1, LeastExists
<1>3. PICK i \in S : d = n - i  OBVIOUS
<1>4. \A j \in S : n - i <= n - j  BY <1>2, <1>3
<1> QED  BY <1>4

(* The map libObject makes has, for each symbol, what was given last.       *)
LEMMA MapAt ==
  ASSUME NEW P, NEW pairs \in Seq(P), NEW m \in DOMAIN pairs,
         \A j \in DOMAIN pairs : Key(pairs[j][1]) = Key(pairs[m][1]) => j <= m
  PROVE  /\ Key(pairs[m][1]) \in DOMAIN ObjectMap(pairs)
         /\ ObjectMap(pairs)[Key(pairs[m][1])] = pairs[m][2]
<1> DEFINE id == Key(pairs[m][1])
           Last(i) == Key(pairs[i][1]) = id /\ \A j \in DOMAIN pairs : Key(pairs[j][1]) = id => i >= j
<1>1. id \in DOMAIN ObjectMap(pairs)  BY DEF ObjectMap
<1>2. ObjectMap(pairs)[id] = pairs[CHOOSE i \in DOMAIN pairs : Last(i)][2]
  BY <1>1 DEF ObjectMap
<1>3. Last(m)  OBVIOUS
<1>4. ASSUME NEW i \in DOMAIN pairs, Last(i) PROVE i = m
  <2>1. i >= m /\ m >= i  BY <1>4
  <2> QED  BY <2>1
<1>5. (CHOOSE i \in DOMAIN pairs : Last(i)) = m
  <2> HIDE DEF Last
  <2> QED  BY <1>3, <1>4
<1> QED  BY <1>1, <1>2, <1>5

(* libObject makes an object, of whatever it is given.                      *)
LEMMA ObjectMade ==
  ASSUME NEW S, NEW pairs \in Seq(Created \X S)
  PROVE  ObjectOf(Object(pairs), S)
<1> DEFINE t == Object(pairs)
<1>1. t.type = "OBJECT" /\ t.given = pairs /\ t.map = ObjectMap(pairs)  BY DEF Object
<1>2. DOMAIN t.map = {Key(t.given[i][1]) : i \in DOMAIN t.given}  BY <1>1 DEF ObjectMap
<1>3. ASSUME NEW i \in DOMAIN pairs
      PROVE  \E m \in DOMAIN pairs :
               /\ Key(pairs[m][1]) = Key(pairs[i][1])
               /\ t.map[Key(pairs[i][1])] = pairs[m][2]
               /\ \A j \in DOMAIN pairs : Key(pairs[j][1]) = Key(pairs[i][1]) => j <= m
  <2> DEFINE Same == {j \in DOMAIN pairs : Key(pairs[j][1]) = Key(pairs[i][1])}
  <2>1. Same \in SUBSET (1..Len(pairs)) /\ Same # {} /\ Len(pairs) \in Nat  OBVIOUS
  <2>2. PICK m \in Same : \A j \in Same : j <= m  BY <2>1, GreatestExists
  <2>3. /\ m \in DOMAIN pairs /\ Key(pairs[m][1]) = Key(pairs[i][1])
        /\ \A j \in DOMAIN pairs : Key(pairs[j][1]) = Key(pairs[m][1]) => j <= m
    BY <2>2
  <2>4. ObjectMap(pairs)[Key(pairs[m][1])] = pairs[m][2]  BY <2>3, MapAt
  <2> QED  BY <1>1, <2>3, <2>4
<1> QED  BY <1>1, <1>2, <1>3 DEF ObjectOf, HoldsLast

(* Where every symbol was given once, the map is what was given.            *)
LEMMA MapOfDistinct ==
  ASSUME NEW P, NEW pairs \in Seq(P), NEW m \in DOMAIN pairs,
         \A i, j \in DOMAIN pairs : Key(pairs[i][1]) = Key(pairs[j][1]) => i = j
  PROVE  /\ Key(pairs[m][1]) \in DOMAIN ObjectMap(pairs)
         /\ ObjectMap(pairs)[Key(pairs[m][1])] = pairs[m][2]
<1>1. \A j \in DOMAIN pairs : Key(pairs[j][1]) = Key(pairs[m][1]) => j = m  OBVIOUS
<1>2. m \in Int  OBVIOUS
<1>3. \A j \in DOMAIN pairs : Key(pairs[j][1]) = Key(pairs[m][1]) => j <= m  BY <1>1, <1>2
<1> QED  BY <1>3, MapAt

(* What an object has is among what it was given.                           *)
LEMMA ValuesGiven ==
  ASSUME NEW S, NEW t, ObjectOf(t, S), NEW k \in DOMAIN t.map
  PROVE  t.map[k] \in S
BY DEF ObjectOf, HoldsLast

-----------------------------------------------------------------------------
(* The properties of an object.                                             *)

(* Counting those up to each numbers the elements of a set of naturals.     *)
LEMMA RankFacts ==
  ASSUME NEW n \in Nat, NEW S \in SUBSET (1..n)
  PROVE  /\ Cardinality(S) \in Nat
         /\ \A i \in S : Cardinality({j \in S : j <= i}) \in 1..Cardinality(S)
         /\ \A i, l \in S : i < l =>
              Cardinality({j \in S : j <= i}) < Cardinality({j \in S : j <= l})
         /\ \A k \in 1..Cardinality(S) : \E i \in S : Cardinality({j \in S : j <= i}) = k
<1> DEFINE R(i) == {j \in S : j <= i}
<1>1. IsFiniteSet(S)
  <2>1. IsFiniteSet(1..n)  BY FS_Interval
  <2> QED  BY <2>1, FS_Subset
<1>2. ASSUME NEW T \in SUBSET S PROVE IsFiniteSet(T) /\ Cardinality(T) \in Nat
  BY <1>1, FS_Subset, FS_CardinalityType
<1>3. Cardinality(S) \in Nat  BY <1>2
<1>4. ASSUME NEW i \in S PROVE Cardinality(R(i)) \in 1..Cardinality(S)
  <2>1. R(i) \in SUBSET S /\ R(i) # {}  OBVIOUS
  <2>2. Cardinality(R(i)) \in Nat /\ Cardinality(R(i)) # 0  BY <2>1, <1>2, FS_EmptySet
  <2>3. Cardinality(R(i)) <= Cardinality(S)  BY <2>1, <1>1, FS_Subset
  <2> QED  BY <1>3, <2>2, <2>3
<1>5. ASSUME NEW i \in S, NEW l \in S, i < l PROVE Cardinality(R(i)) < Cardinality(R(l))
  <2>1. R(i) \in SUBSET R(l) /\ R(i) # R(l)
    <3>1. i \in Int /\ l \in Int /\ \A j \in S : j \in Int  OBVIOUS
    <3>2. l \in R(l) /\ l \notin R(i)  BY <3>1, <1>5
    <3>3. \A j \in R(i) : j \in R(l)  BY <3>1, <1>5
    <3> QED  BY <3>2, <3>3
  <2>2. IsFiniteSet(R(l)) /\ Cardinality(R(l)) \in Nat /\ Cardinality(R(i)) \in Nat
    <3>1. R(l) \in SUBSET S /\ R(i) \in SUBSET S  OBVIOUS
    <3> QED  BY <3>1, <1>2
  <2>3. Cardinality(R(i)) <= Cardinality(R(l)) /\ Cardinality(R(i)) # Cardinality(R(l))
    BY <2>1, <2>2, FS_Subset
  <2> QED  BY <2>2, <2>3
<1> DEFINE T == 1..Cardinality(S)
           f == [i \in S |-> Cardinality(R(i))]
<1>6. f \in Injection(S, T)
  <2>1. f \in [S -> T]  BY <1>4
  <2>2. ASSUME NEW a \in S, NEW b \in S, f[a] = f[b] PROVE a = b
    <3>1. f[a] \in Int /\ f[b] \in Int /\ a \in Int /\ b \in Int  BY <2>1
    <3>2. ~ (a < b)
      <4>1. ASSUME a < b PROVE FALSE
        <5>1. f[a] < f[b]  BY <1>5, <4>1
        <5> QED  BY <5>1, <3>1, <2>2
      <4> QED  BY <4>1
    <3>3. ~ (b < a)
      <4>1. ASSUME b < a PROVE FALSE
        <5>1. f[b] < f[a]  BY <1>5, <4>1
        <5> QED  BY <5>1, <3>1, <2>2
      <4> QED  BY <4>1
    <3> QED  BY <3>1, <3>2, <3>3
  <2> HIDE DEF f
  <2>3. DOMAIN f = S  BY <2>1
  <2> QED  BY <2>1, <2>2, <2>3 DEF Injection, IsInjective
<1>7. IsFiniteSet(T) /\ Cardinality(T) = Cardinality(S)  BY <1>3, FS_Interval
<1>8. f \in Surjection(S, T)
  <2> HIDE DEF f
  <2> QED  BY <1>6, <1>7, FS_Injection
<1>9. ASSUME NEW k \in T PROVE \E i \in S : Cardinality(R(i)) = k
  <2>1. \E i \in S : f[i] = k  BY <1>8 DEF Surjection
  <2> QED  BY <2>1
<1> QED  BY <1>3, <1>4, <1>5, <1>9

(* The first puts go through all keys, each once.                           *)
LEMMA FirstPutsFacts ==
  ASSUME NEW P, NEW given \in Seq(P)
  PROVE  /\ FirstPuts(given) \in Seq(DOMAIN given)
         /\ \A k, l \in DOMAIN FirstPuts(given) :
              Key(given[FirstPuts(given)[k]][1]) = Key(given[FirstPuts(given)[l]][1]) => k = l
         /\ \A i \in DOMAIN given : \E k \in DOMAIN FirstPuts(given) :
              Key(given[FirstPuts(given)[k]][1]) = Key(given[i][1])
<1> DEFINE firsts == {i \in DOMAIN given : \A j \in 1..(i - 1) : Key(given[j][1]) # Key(given[i][1])}
           Rank(i) == Cardinality({j \in firsts : j <= i})
           N == Cardinality(firsts)
           puts == FirstPuts(given)
<1>1. puts = [k \in 1..N |-> CHOOSE i \in firsts : Rank(i) = k]  BY DEF FirstPuts
<1>2. firsts \in SUBSET (1..Len(given)) /\ Len(given) \in Nat  OBVIOUS
<1>3. ASSUME NEW i \in firsts, NEW l \in firsts, Key(given[i][1]) = Key(given[l][1]) PROVE i = l
  <2>1. i \in 1..Len(given) /\ l \in 1..Len(given)  BY <1>2
  <2>2. ~ (i < l)  BY <2>1, <1>3
  <2>3. ~ (l < i)  BY <2>1, <1>3
  <2> QED  BY <2>1, <2>2, <2>3
<1>4. ASSUME NEW i \in DOMAIN given PROVE \E l \in firsts : Key(given[l][1]) = Key(given[i][1])
  <2> DEFINE Same == {j \in DOMAIN given : Key(given[j][1]) = Key(given[i][1])}
  <2>1. Same \in SUBSET Nat /\ Same # {}  OBVIOUS
  <2>2. PICK l \in Same : \A j \in Same : l <= j  BY <2>1, LeastExists
  <2>3. l \in 1..Len(given) /\ Key(given[l][1]) = Key(given[i][1])  BY <2>2
  <2>4. ASSUME NEW j \in 1..(l - 1) PROVE Key(given[j][1]) # Key(given[l][1])
    <3>1. j \in DOMAIN given /\ ~ (l <= j)  BY <2>3
    <3> QED  BY <3>1, <2>2, <2>3
  <2>5. l \in firsts  BY <2>3, <2>4
  <2> QED  BY <2>3, <2>5
<1>5. \A i \in firsts : i \in Int /\ i \in DOMAIN given  OBVIOUS
<1> HIDE DEF firsts, puts
<1>6. /\ N \in Nat
      /\ \A i \in firsts : Rank(i) \in 1..N
      /\ \A k \in 1..N : \E i \in firsts : Rank(i) = k
      /\ \A i, l \in firsts : i < l => Rank(i) < Rank(l)
  BY <1>2, RankFacts
<1> HIDE DEF Rank, N
<1>7. ASSUME NEW k \in 1..N PROVE puts[k] \in firsts /\ Rank(puts[k]) = k
  BY <1>1, <1>6
<1>8. ASSUME NEW i \in firsts PROVE Rank(i) \in 1..N /\ puts[Rank(i)] = i
  <2>1. Rank(i) \in 1..N  BY <1>6
  <2>2. puts[Rank(i)] \in firsts /\ Rank(puts[Rank(i)]) = Rank(i)  BY <2>1, <1>7
  <2>3. puts[Rank(i)] \in Int /\ i \in Int  BY <2>2, <1>5
  <2>4. ~ (puts[Rank(i)] < i) /\ ~ (i < puts[Rank(i)])
    BY <2>1, <2>2, <1>6
  <2> QED  BY <2>1, <2>3, <2>4
<1>9. puts \in Seq(DOMAIN given) /\ DOMAIN puts = 1..N
  <2>1. puts = [k \in 1..N |-> puts[k]]  BY <1>1
  <2>2. \A k \in 1..N : puts[k] \in DOMAIN given  BY <1>5, <1>7
  <2> QED  BY <2>1, <2>2, <1>6
<1>10. ASSUME NEW k \in 1..N, NEW l \in 1..N, Key(given[puts[k]][1]) = Key(given[puts[l]][1])
      PROVE  k = l
  <2>1. puts[k] = puts[l]  BY <1>3, <1>7, <1>10
  <2> QED  BY <2>1, <1>7
<1>11. ASSUME NEW i \in DOMAIN given
       PROVE  \E k \in 1..N : Key(given[puts[k]][1]) = Key(given[i][1])
  BY <1>4, <1>8
<1>12. /\ \A k, l \in DOMAIN puts : Key(given[puts[k]][1]) = Key(given[puts[l]][1]) => k = l
       /\ \A i \in DOMAIN given : \E k \in DOMAIN puts : Key(given[puts[k]][1]) = Key(given[i][1])
  BY <1>9, <1>10, <1>11
<1> QED  BY <1>9, <1>12 DEF puts

(* properties gives every symbol of the object once, with what it has for   *)
(* it.                                                                      *)
LEMMA PropertiesFacts ==
  ASSUME NEW S, NEW object, ObjectOf(object, S), program.before \in Nat, symbolId \in Nat
  PROVE  /\ properties(object) \in Seq(Created \X S)
         /\ \A k, l \in DOMAIN properties(object) :
              Key(properties(object)[k][1]) = Key(properties(object)[l][1]) => k = l
         /\ \A k \in DOMAIN properties(object) :
              /\ Key(properties(object)[k][1]) \in DOMAIN object.map
              /\ properties(object)[k][2] = object.map[Key(properties(object)[k][1])]
         /\ \A id \in DOMAIN object.map : \E k \in DOMAIN properties(object) :
              Key(properties(object)[k][1]) = id
<1> DEFINE given == object.given
           puts == FirstPuts(given)
           S0(k) == Symbol(given[puts[k]][1].id, 0, given[puts[k]][1].nth)
           P == properties(object)
<1>1. given \in Seq(Created \X S) /\ HoldsLast(object)  BY DEF ObjectOf
<1>2. P = [k \in DOMAIN puts |-> <<S0(k), object.map[Key(given[puts[k]][1])]>>]
  BY DEF properties
<1>3. /\ puts \in Seq(DOMAIN given)
      /\ \A k, l \in DOMAIN puts : Key(given[puts[k]][1]) = Key(given[puts[l]][1]) => k = l
      /\ \A i \in DOMAIN given : \E k \in DOMAIN puts : Key(given[puts[k]][1]) = Key(given[i][1])
  BY <1>1, FirstPutsFacts
<1> HIDE DEF puts, P, given
<1>4. ASSUME NEW k \in DOMAIN puts
      PROVE  /\ S0(k) \in Created
             /\ Key(S0(k)) = Key(given[puts[k]][1])
             /\ Key(S0(k)) \in DOMAIN object.map
             /\ object.map[Key(S0(k))] \in S
  <2>1. puts[k] \in DOMAIN given  BY <1>3
  <2> DEFINE s == given[puts[k]][1]
  <2>2. s \in Created  BY <1>1, <2>1
  <2>3. s.nth \in program.before..(symbolId - 1) /\ s.id = Identity(s.nth)
    BY <2>2, CreatedFacts
  <2>4. S0(k) \in Created  BY <2>3 DEF Created
  <2>5. Key(S0(k)) = Key(s)  BY DEF Key, Symbol
  <2>6. Key(s) \in DOMAIN object.map  BY <1>1, <2>1 DEF HoldsLast, given
  <2> QED  BY <2>4, <2>5, <2>6, ValuesGiven
<1>5. DOMAIN P = DOMAIN puts
      /\ \A k \in DOMAIN puts : P[k] = <<S0(k), object.map[Key(S0(k))]>>
  BY <1>2, <1>4
<1>6. P \in Seq(Created \X S)
  <2>1. DOMAIN puts = 1..Len(puts) /\ Len(puts) \in Nat  BY <1>3
  <2>2. P = [k \in 1..Len(puts) |-> P[k]]  BY <1>2, <2>1
  <2>3. ASSUME NEW k \in 1..Len(puts) PROVE P[k] \in Created \X S
    <3>1. k \in DOMAIN puts  BY <2>1
    <3>2. S0(k) \in Created /\ object.map[Key(S0(k))] \in S  BY <3>1, <1>4
    <3>3. P[k] = <<S0(k), object.map[Key(S0(k))]>>  BY <3>1, <1>5
    <3> HIDE DEF S0
    <3> QED  BY <3>2, <3>3
  <2> QED  BY <2>1, <2>2, <2>3
<1>7. ASSUME NEW k \in DOMAIN P
      PROVE  /\ P[k][1] = S0(k) /\ Key(P[k][1]) = Key(given[puts[k]][1])
             /\ Key(P[k][1]) \in DOMAIN object.map /\ P[k][2] = object.map[Key(P[k][1])]
  BY <1>4, <1>5
<1>8. \A k, l \in DOMAIN P : Key(P[k][1]) = Key(P[l][1]) => k = l
  BY <1>3, <1>5, <1>7
<1>9. \A id \in DOMAIN object.map : \E k \in DOMAIN P : Key(P[k][1]) = id
  <2>1. \A id \in DOMAIN object.map : \E i \in DOMAIN given : Key(given[i][1]) = id
    BY <1>1 DEF HoldsLast, given
  <2> QED  BY <2>1, <1>3, <1>5, <1>7
<1> QED  BY <1>6, <1>7, <1>8, <1>9 DEF P

(* What mixin makes has what either has, and of what both have, what the    *)
(* first has.                                                               *)
LEMMA MixinFacts ==
  ASSUME NEW S, NEW a, NEW b, ObjectOf(a, S), ObjectOf(b, S),
         program.before \in Nat, symbolId \in Nat
  PROVE  ObjectOf(mixin(a, b), S) /\ mixin(a, b).map = Joined(a.map, b.map)
<1> DEFINE A == properties(a)
           B == properties(b)
           put == A \o B
           N == Len(put)
           Q == [i \in DOMAIN put |-> put[N + 1 - i]]
           Same(i, j) == Key(Q[i][1]) = Key(Q[j][1])
<1>1. /\ A \in Seq(Created \X S) /\ B \in Seq(Created \X S)
      /\ \A k, l \in DOMAIN A : Key(A[k][1]) = Key(A[l][1]) => k = l
      /\ \A k, l \in DOMAIN B : Key(B[k][1]) = Key(B[l][1]) => k = l
  BY PropertiesFacts
<1>2. /\ \A k \in DOMAIN A : Key(A[k][1]) \in DOMAIN a.map /\ A[k][2] = a.map[Key(A[k][1])]
      /\ \A k \in DOMAIN B : Key(B[k][1]) \in DOMAIN b.map /\ B[k][2] = b.map[Key(B[k][1])]
      /\ \A id \in DOMAIN a.map : \E k \in DOMAIN A : Key(A[k][1]) = id
      /\ \A id \in DOMAIN b.map : \E k \in DOMAIN B : Key(B[k][1]) = id
  BY PropertiesFacts
<1>3. mixin(a, b) = Object(Q)  BY DEF mixin
<1> HIDE DEF A, B
<1>4. /\ put \in Seq(Created \X S) /\ N = Len(A) + Len(B) /\ N \in Nat
      /\ Len(A) \in Nat /\ Len(B) \in Nat
      /\ \A i \in 1..Len(A) : put[i] = A[i]
      /\ \A i \in 1..Len(B) : put[Len(A) + i] = B[i]
  BY <1>1
<1> HIDE DEF put, N
<1>5. DOMAIN put = 1..N  BY <1>4 DEF N
<1>6. Q \in Seq(Created \X S) /\ DOMAIN Q = 1..N
      /\ \A i \in 1..N : Q[i] = put[N + 1 - i]
  <2>1. \A i \in 1..N : N + 1 - i \in 1..N /\ put[N + 1 - i] \in Created \X S
    BY <1>4, <1>5
  <2>2. Q \in [1..N -> Created \X S]  BY <1>5, <2>1
  <2> QED  BY <2>2, <1>4, <1>5
<1> HIDE DEF Q
<1>7. ObjectOf(Object(Q), S)  BY <1>6, ObjectMade
<1>8. ASSUME NEW i \in 1..N
      PROVE  \/ \E k \in 1..Len(A) : k = N + 1 - i /\ Q[i] = A[k]
             \/ \E k \in 1..Len(B) : Len(A) + k = N + 1 - i /\ Q[i] = B[k]
  <2>1. N + 1 - i \in 1..N /\ Q[i] = put[N + 1 - i]  BY <1>4, <1>6
  <2>2. CASE N + 1 - i <= Len(A)
    <3>1. N + 1 - i \in 1..Len(A)  BY <2>1, <2>2, <1>4
    <3> QED  BY <3>1, <2>1, <1>4
  <2>3. CASE N + 1 - i > Len(A)
    <3>1. N + 1 - i - Len(A) \in 1..Len(B)  BY <2>1, <2>3, <1>4
    <3>2. Len(A) + (N + 1 - i - Len(A)) = N + 1 - i  BY <1>4, <2>1
    <3>3. put[Len(A) + (N + 1 - i - Len(A))] = B[N + 1 - i - Len(A)]  BY <3>1, <1>4
    <3>4. Q[i] = B[N + 1 - i - Len(A)]  BY <3>2, <3>3, <2>1
    <3> QED  BY <3>1, <3>2, <3>4
  <2> QED  BY <2>1, <2>2, <2>3, <1>4
<1>9. DOMAIN A = 1..Len(A) /\ DOMAIN B = 1..Len(B)  BY <1>1
<1>10. ASSUME NEW id \in DOMAIN a.map
       PROVE  id \in DOMAIN ObjectMap(Q) /\ ObjectMap(Q)[id] = a.map[id]
  <2>1. PICK k \in 1..Len(A) : Key(A[k][1]) = id /\ A[k][2] = a.map[id]  BY <1>2, <1>9
  <2>2. N + 1 - k \in 1..N /\ N + 1 - (N + 1 - k) = k  BY <1>4
  <2> DEFINE m == N + 1 - k
  <2>3. Q[m] = A[k]  BY <1>4, <1>6, <2>2
  <2>4. ASSUME NEW j \in 1..N, Key(Q[j][1]) = id PROVE j <= m
    <3>1. CASE \E l \in 1..Len(A) : l = N + 1 - j /\ Q[j] = A[l]
      <4>1. PICK l \in 1..Len(A) : l = N + 1 - j /\ Q[j] = A[l]  BY <3>1
      <4>2. l = k  BY <4>1, <2>4, <2>1, <1>1, <1>9
      <4> QED  BY <4>1, <4>2, <1>4
    <3>2. CASE \E l \in 1..Len(B) : Len(A) + l = N + 1 - j /\ Q[j] = B[l]
      BY <3>2, <1>4
    <3> QED  BY <3>1, <3>2, <1>8
  <2>5. m \in DOMAIN Q /\ Key(Q[m][1]) = id  BY <2>1, <2>2, <2>3, <1>6
  <2>6. \A j \in DOMAIN Q : Key(Q[j][1]) = Key(Q[m][1]) => j <= m  BY <2>4, <2>5, <1>6
  <2> HIDE DEF m
  <2>7. id \in DOMAIN ObjectMap(Q) /\ ObjectMap(Q)[id] = Q[m][2]  BY <2>5, <2>6, <1>6, MapAt
  <2> QED  BY <2>1, <2>3, <2>7
<1>11. ASSUME NEW id \in DOMAIN b.map, id \notin DOMAIN a.map
       PROVE  id \in DOMAIN ObjectMap(Q) /\ ObjectMap(Q)[id] = b.map[id]
  <2>1. PICK k \in 1..Len(B) : Key(B[k][1]) = id /\ B[k][2] = b.map[id]  BY <1>2, <1>9
  <2> DEFINE m == N + 1 - (Len(A) + k)
  <2>2. m \in 1..N /\ N + 1 - m = Len(A) + k  BY <1>4
  <2>3. Q[m] = B[k]  BY <1>4, <1>6, <2>2
  <2> HIDE DEF m
  <2>4. ASSUME NEW j \in 1..N, Key(Q[j][1]) = id PROVE j <= m
    <3>1. CASE \E l \in 1..Len(A) : l = N + 1 - j /\ Q[j] = A[l]
      BY <3>1, <2>4, <1>2, <1>9, <1>11
    <3>2. CASE \E l \in 1..Len(B) : Len(A) + l = N + 1 - j /\ Q[j] = B[l]
      <4>1. PICK l \in 1..Len(B) : Len(A) + l = N + 1 - j /\ Q[j] = B[l]  BY <3>2
      <4>2. l = k  BY <4>1, <2>4, <2>1, <1>1, <1>9
      <4> QED  BY <4>1, <4>2, <2>2, <1>4
    <3> QED  BY <3>1, <3>2, <1>8
  <2>5. m \in DOMAIN Q /\ Key(Q[m][1]) = id  BY <2>1, <2>2, <2>3, <1>6
  <2>6. \A j \in DOMAIN Q : Key(Q[j][1]) = Key(Q[m][1]) => j <= m  BY <2>4, <2>5, <1>6
  <2> HIDE DEF m
  <2>7. id \in DOMAIN ObjectMap(Q) /\ ObjectMap(Q)[id] = Q[m][2]  BY <2>5, <2>6, <1>6, MapAt
  <2> QED  BY <2>1, <2>3, <2>7
<1>12. DOMAIN ObjectMap(Q) \subseteq DOMAIN a.map \cup DOMAIN b.map
  <2>1. ASSUME NEW i \in 1..N PROVE Key(Q[i][1]) \in DOMAIN a.map \cup DOMAIN b.map
    BY <1>2, <1>8, <1>9
  <2> QED  BY <2>1, <1>6 DEF ObjectMap
<1>13. DOMAIN ObjectMap(Q) = DOMAIN a.map \cup DOMAIN b.map
  BY <1>10, <1>11, <1>12
<1>14. \A id \in DOMAIN a.map \cup DOMAIN b.map :
         ObjectMap(Q)[id] = IF id \in DOMAIN a.map THEN a.map[id] ELSE b.map[id]
  BY <1>10, <1>11
<1>15. ObjectMap(Q) = [id \in DOMAIN ObjectMap(Q) |-> ObjectMap(Q)[id]]  BY DEF ObjectMap
<1>16. ObjectMap(Q) = Joined(a.map, b.map)  BY <1>13, <1>14, <1>15 DEF Joined
<1> QED  BY <1>3, <1>7, <1>16 DEF Object
=============================================================================
