--------------------------- MODULE JsonTreeProofs ---------------------------
(***************************************************************************)
(* What the operators of JsonTree promise for every document, path and     *)
(* value, of any depth and size.  Four theorems sum it up: what is set at  *)
(* a path is found there and leaves what diverges from the path, what is   *)
(* read by the ever shorter prefixes of GetValueFromJson is what a walk    *)
(* through the document comes to, and a column reads its rows in order.    *)
(* Induction is over sets of numbers: a set with 0 and with every          *)
(* successor is Nat (SetInduction), and a recursive function is unfolded   *)
(* by one lemma of its own.                                                *)
(***************************************************************************)
EXTENDS JsonTree, SequenceTheorems, FiniteSetTheorems, WellFoundedInduction, TLAPS

(* A set of numbers with 0, and with every successor, has all of them.     *)
LEMMA SetInduction ==
  ASSUME NEW S \in SUBSET Nat, 0 \in S, \A n \in S : n + 1 \in S
  PROVE  S = Nat
  <1> DEFINE T == Nat \ S
             R == OpToRel(<, Nat)
  <1>1. SUFFICES ASSUME T # {} PROVE FALSE
    OBVIOUS
  <1>2. IsWellFoundedOn(R, Nat)
    BY NatLessThanWellFounded
  <1>3. PICK x \in T : \A y \in T : ~ (<<y, x>> \in R)
    BY <1>1, <1>2, WFMin
  <1>4. \A y \in Nat : y < x => <<y, x>> \in R
    BY DEF OpToRel
  <1>5. x - 1 \in Nat /\ x - 1 < x
    OBVIOUS
  <1>6. x - 1 \in S
    BY <1>3, <1>4, <1>5
  <1>7. QED
    BY <1>6

-----------------------------------------------------------------------------
(* What a value is made of, level by level.                                *)
LEMMA LevelsUnfold ==
  ASSUME NEW v, NEW n \in Nat
  PROVE  Levels(v, n) =
            [i \in 0..n |->
               IF i = 0 THEN {v}
               ELSE UNION {Kids(x) : x \in Levels(v, n)[i - 1]}]
  <1> DEFINE B == {v}
             E(i, y) == UNION {Kids(x) : x \in y}
             Solves(f, m) == f = [i \in 0..m |-> IF i = 0 THEN B ELSE E(i, f[i - 1])]
             S == {m \in Nat : \E f : Solves(f, m)}
  <1>1. n \in Nat
    OBVIOUS
  <1>2. Levels(v, n) = CHOOSE f : Solves(f, n)
    BY DEF Levels, B, E
  <1> HIDE DEF B, E
  <1>3. 0 \in S
    <2>1. Solves([i \in 0..0 |-> B], 0)
      OBVIOUS
    <2>2. QED
      BY <2>1
  <1>4. ASSUME NEW m \in S PROVE m + 1 \in S
    <2>1. PICK f : Solves(f, m)
      OBVIOUS
    <2> DEFINE g == [i \in 0..(m + 1) |-> IF i = m + 1 THEN E(m + 1, f[m]) ELSE f[i]]
    <2>2. \A i \in 0..m : g[i] = f[i] /\ i # m + 1
      OBVIOUS
    <2>3. \A i \in 0..m : f[i] = IF i = 0 THEN B ELSE E(i, f[i - 1])
      BY <2>1
    <2>4. m \in 0..m /\ (m + 1) - 1 = m /\ m + 1 # 0 /\ m + 1 \in 0..(m + 1)
      OBVIOUS
    <2>5. g[m + 1] = E(m + 1, f[m]) /\ g[m] = f[m]
      BY <2>2, <2>4
    <2>6. \A i \in 0..m : i # 0 => i - 1 \in 0..m
      OBVIOUS
    <2>7. \A i \in 0..m : g[i] = IF i = 0 THEN B ELSE E(i, g[i - 1])
      BY <2>2, <2>3, <2>6
    <2>8. \A i \in 0..(m + 1) : i \in 0..m \/ i = m + 1
      OBVIOUS
    <2>9. \A i \in 0..(m + 1) : g[i] = IF i = 0 THEN B ELSE E(i, g[i - 1])
      BY <2>4, <2>5, <2>7, <2>8, Zenon
    <2>10. g = [i \in 0..(m + 1) |-> g[i]]
      OBVIOUS
    <2> HIDE DEF g
    <2>11. Solves(g, m + 1)
      BY <2>9, <2>10
    <2> HIDE DEF Solves
    <2>12. QED
      BY <2>11
  <1>5. n \in S
    <2>1. S \in SUBSET Nat
      OBVIOUS
    <2> HIDE DEF S
    <2>2. QED
      BY <1>1, <1>3, <1>4, <2>1, SetInduction
  <1>6. \E f : Solves(f, n)
    BY <1>5
  <1>7. Solves(Levels(v, n), n)
    <2> HIDE DEF Solves
    <2>1. QED
      BY <1>2, <1>6
  <1>8. QED
    BY <1>7 DEF B, E

(* What is there of a list, element by element.                            *)
LEMMA FoundUnfold ==
  ASSUME NEW list, Len(list) \in Nat
  PROVE  /\ FoundUpTo(list)[0] = <<>>
         /\ \A k \in 0..Len(list) : k + 1 \in 0..Len(list) =>
               FoundUpTo(list)[k + 1] =
                  IF Found(list[k + 1]) THEN Append(FoundUpTo(list)[k], list[k + 1]) ELSE FoundUpTo(list)[k]
  <1> DEFINE B == <<>>
             E(i, y) == IF Found(list[i]) THEN Append(y, list[i]) ELSE y
             Solves(f, m) == f = [i \in 0..m |-> IF i = 0 THEN B ELSE E(i, f[i - 1])]
             S == {m \in Nat : \E f : Solves(f, m)}
  <1>1. Len(list) \in Nat
    OBVIOUS
  <1>2. FoundUpTo(list) = CHOOSE f : Solves(f, Len(list))
    BY DEF FoundUpTo, B, E
  <1> HIDE DEF B, E
  <1>3. 0 \in S
    <2>1. Solves([i \in 0..0 |-> B], 0)
      OBVIOUS
    <2>2. QED
      BY <2>1
  <1>4. ASSUME NEW m \in S PROVE m + 1 \in S
    <2>1. PICK f : Solves(f, m)
      OBVIOUS
    <2> DEFINE g == [i \in 0..(m + 1) |-> IF i = m + 1 THEN E(m + 1, f[m]) ELSE f[i]]
    <2>2. \A i \in 0..m : g[i] = f[i] /\ i # m + 1
      OBVIOUS
    <2>3. \A i \in 0..m : f[i] = IF i = 0 THEN B ELSE E(i, f[i - 1])
      BY <2>1
    <2>4. m \in 0..m /\ (m + 1) - 1 = m /\ m + 1 # 0 /\ m + 1 \in 0..(m + 1)
      OBVIOUS
    <2>5. g[m + 1] = E(m + 1, f[m]) /\ g[m] = f[m]
      BY <2>2, <2>4
    <2>6. \A i \in 0..m : i # 0 => i - 1 \in 0..m
      OBVIOUS
    <2>7. \A i \in 0..m : g[i] = IF i = 0 THEN B ELSE E(i, g[i - 1])
      BY <2>2, <2>3, <2>6
    <2>8. \A i \in 0..(m + 1) : i \in 0..m \/ i = m + 1
      OBVIOUS
    <2>9. \A i \in 0..(m + 1) : g[i] = IF i = 0 THEN B ELSE E(i, g[i - 1])
      BY <2>4, <2>5, <2>7, <2>8, Zenon
    <2>10. g = [i \in 0..(m + 1) |-> g[i]]
      OBVIOUS
    <2> HIDE DEF g
    <2>11. Solves(g, m + 1)
      BY <2>9, <2>10
    <2> HIDE DEF Solves
    <2>12. QED
      BY <2>11
  <1>5. Len(list) \in S
    <2>1. S \in SUBSET Nat
      OBVIOUS
    <2> HIDE DEF S
    <2>2. QED
      BY <1>1, <1>3, <1>4, <2>1, SetInduction
  <1>6. \E f : Solves(f, Len(list))
    BY <1>5
  <1>7. Solves(FoundUpTo(list), Len(list))
    <2> HIDE DEF Solves
    <2>1. QED
      BY <1>2, <1>6
  <1> DEFINE G == FoundUpTo(list)
  <1>8. G = [i \in 0..Len(list) |-> IF i = 0 THEN B ELSE E(i, G[i - 1])]
    BY <1>7
  <1>9. \A k \in 0..Len(list) : k + 1 # 0 /\ (k + 1) - 1 = k /\ 0 \in 0..Len(list)
    BY <1>1
  <1> HIDE DEF G, S, Solves
  <1>10. G[0] = B /\ \A k \in 0..Len(list) : k + 1 \in 0..Len(list) => G[k + 1] = E(k + 1, G[k])
    BY <1>1, <1>8, <1>9
  <1>11. ASSUME NEW k \in 0..Len(list), NEW y
         PROVE  E(k + 1, y) = IF Found(list[k + 1]) THEN Append(y, list[k + 1]) ELSE y
    BY DEF E
  <1>12. QED
    BY <1>10, <1>11 DEF G, B

(* What is found below each value, from the end of the path.               *)
LEMMA LookupsUnfold ==
  ASSUME NEW d, NEW path, Len(path) \in Nat
  PROVE  Lookups(d, path) =
            [i \in 0..Len(path) |->
               IF i = 0 THEN [x \in Levels(d, Len(path))[Len(path) - 0] |-> x]
               ELSE [x \in Levels(d, Len(path))[Len(path) - i] |->
                  Step(x, path[Len(path) - i + 1], Lookups(d, path)[i - 1], i > 1)]]
  <1> DEFINE B == [x \in Levels(d, Len(path))[Len(path) - 0] |-> x]
             E(i, y) == [x \in Levels(d, Len(path))[Len(path) - i] |->
                  Step(x, path[Len(path) - i + 1], y, i > 1)]
             Solves(f, m) == f = [i \in 0..m |-> IF i = 0 THEN B ELSE E(i, f[i - 1])]
             S == {m \in Nat : \E f : Solves(f, m)}
  <1>1. Len(path) \in Nat
    OBVIOUS
  <1>2. Lookups(d, path) = CHOOSE f : Solves(f, Len(path))
    BY DEF Lookups, B, E
  <1> HIDE DEF B, E
  <1>3. 0 \in S
    <2>1. Solves([i \in 0..0 |-> B], 0)
      OBVIOUS
    <2>2. QED
      BY <2>1
  <1>4. ASSUME NEW m \in S PROVE m + 1 \in S
    <2>1. PICK f : Solves(f, m)
      OBVIOUS
    <2> DEFINE g == [i \in 0..(m + 1) |-> IF i = m + 1 THEN E(m + 1, f[m]) ELSE f[i]]
    <2>2. \A i \in 0..m : g[i] = f[i] /\ i # m + 1
      OBVIOUS
    <2>3. \A i \in 0..m : f[i] = IF i = 0 THEN B ELSE E(i, f[i - 1])
      BY <2>1
    <2>4. m \in 0..m /\ (m + 1) - 1 = m /\ m + 1 # 0 /\ m + 1 \in 0..(m + 1)
      OBVIOUS
    <2>5. g[m + 1] = E(m + 1, f[m]) /\ g[m] = f[m]
      BY <2>2, <2>4
    <2>6. \A i \in 0..m : i # 0 => i - 1 \in 0..m
      OBVIOUS
    <2>7. \A i \in 0..m : g[i] = IF i = 0 THEN B ELSE E(i, g[i - 1])
      BY <2>2, <2>3, <2>6
    <2>8. \A i \in 0..(m + 1) : i \in 0..m \/ i = m + 1
      OBVIOUS
    <2>9. \A i \in 0..(m + 1) : g[i] = IF i = 0 THEN B ELSE E(i, g[i - 1])
      BY <2>4, <2>5, <2>7, <2>8, Zenon
    <2>10. g = [i \in 0..(m + 1) |-> g[i]]
      OBVIOUS
    <2> HIDE DEF g
    <2>11. Solves(g, m + 1)
      BY <2>9, <2>10
    <2> HIDE DEF Solves
    <2>12. QED
      BY <2>11
  <1>5. Len(path) \in S
    <2>1. S \in SUBSET Nat
      OBVIOUS
    <2> HIDE DEF S
    <2>2. QED
      BY <1>1, <1>3, <1>4, <2>1, SetInduction
  <1>6. \E f : Solves(f, Len(path))
    BY <1>5
  <1>7. Solves(Lookups(d, path), Len(path))
    <2> HIDE DEF Solves
    <2>1. QED
      BY <1>2, <1>6
  <1>8. QED
    BY <1>7 DEF B, E

(* The values along a path, one after the other.                           *)
LEMMA TrailUnfold ==
  ASSUME NEW d, NEW path, Len(path) \in Nat
  PROVE  /\ Trail(d, path)[0] = d
         /\ \A k \in 0..Len(path) : k + 1 \in 0..Len(path) =>
               Trail(d, path)[k + 1] =
                  Child(Trail(d, path)[k], path[k + 1])
  <1> DEFINE B == d
             E(i, y) == Child(y, path[i])
             Solves(f, m) == f = [i \in 0..m |-> IF i = 0 THEN B ELSE E(i, f[i - 1])]
             S == {m \in Nat : \E f : Solves(f, m)}
  <1>1. Len(path) \in Nat
    OBVIOUS
  <1>2. Trail(d, path) = CHOOSE f : Solves(f, Len(path))
    BY DEF Trail, B, E
  <1> HIDE DEF B, E
  <1>3. 0 \in S
    <2>1. Solves([i \in 0..0 |-> B], 0)
      OBVIOUS
    <2>2. QED
      BY <2>1
  <1>4. ASSUME NEW m \in S PROVE m + 1 \in S
    <2>1. PICK f : Solves(f, m)
      OBVIOUS
    <2> DEFINE g == [i \in 0..(m + 1) |-> IF i = m + 1 THEN E(m + 1, f[m]) ELSE f[i]]
    <2>2. \A i \in 0..m : g[i] = f[i] /\ i # m + 1
      OBVIOUS
    <2>3. \A i \in 0..m : f[i] = IF i = 0 THEN B ELSE E(i, f[i - 1])
      BY <2>1
    <2>4. m \in 0..m /\ (m + 1) - 1 = m /\ m + 1 # 0 /\ m + 1 \in 0..(m + 1)
      OBVIOUS
    <2>5. g[m + 1] = E(m + 1, f[m]) /\ g[m] = f[m]
      BY <2>2, <2>4
    <2>6. \A i \in 0..m : i # 0 => i - 1 \in 0..m
      OBVIOUS
    <2>7. \A i \in 0..m : g[i] = IF i = 0 THEN B ELSE E(i, g[i - 1])
      BY <2>2, <2>3, <2>6
    <2>8. \A i \in 0..(m + 1) : i \in 0..m \/ i = m + 1
      OBVIOUS
    <2>9. \A i \in 0..(m + 1) : g[i] = IF i = 0 THEN B ELSE E(i, g[i - 1])
      BY <2>4, <2>5, <2>7, <2>8, Zenon
    <2>10. g = [i \in 0..(m + 1) |-> g[i]]
      OBVIOUS
    <2> HIDE DEF g
    <2>11. Solves(g, m + 1)
      BY <2>9, <2>10
    <2> HIDE DEF Solves
    <2>12. QED
      BY <2>11
  <1>5. Len(path) \in S
    <2>1. S \in SUBSET Nat
      OBVIOUS
    <2> HIDE DEF S
    <2>2. QED
      BY <1>1, <1>3, <1>4, <2>1, SetInduction
  <1>6. \E f : Solves(f, Len(path))
    BY <1>5
  <1>7. Solves(Trail(d, path), Len(path))
    <2> HIDE DEF Solves
    <2>1. QED
      BY <1>2, <1>6
  <1> DEFINE G == Trail(d, path)
  <1>8. G = [i \in 0..Len(path) |-> IF i = 0 THEN B ELSE E(i, G[i - 1])]
    BY <1>7
  <1>9. \A k \in 0..Len(path) : k + 1 # 0 /\ (k + 1) - 1 = k /\ 0 \in 0..Len(path)
    BY <1>1
  <1> HIDE DEF G, S, Solves
  <1>10. G[0] = B /\ \A k \in 0..Len(path) : k + 1 \in 0..Len(path) => G[k + 1] = E(k + 1, G[k])
    BY <1>1, <1>8, <1>9
  <1>11. ASSUME NEW k \in 0..Len(path), NEW y
         PROVE  E(k + 1, y) = Child(y, path[k + 1])
    BY DEF E
  <1>12. QED
    BY <1>10, <1>11 DEF G, B

(* What a set rebuilds, from the end of the path.                          *)
LEMMA RebuiltUnfold ==
  ASSUME NEW d, NEW path, NEW v, Len(path) \in Nat
  PROVE  /\ Rebuilt(d, path, v)[0] = v
         /\ \A k \in 0..Len(path) : k + 1 \in 0..Len(path) =>
               Rebuilt(d, path, v)[k + 1] =
                  Replaced(Trail(d, path)[Len(path) - (k + 1)], path[Len(path) - k], Rebuilt(d, path, v)[k])
  <1> DEFINE B == v
             E(i, y) == Replaced(Trail(d, path)[Len(path) - i], path[Len(path) - i + 1], y)
             Solves(f, m) == f = [i \in 0..m |-> IF i = 0 THEN B ELSE E(i, f[i - 1])]
             S == {m \in Nat : \E f : Solves(f, m)}
  <1>1. Len(path) \in Nat
    OBVIOUS
  <1>2. Rebuilt(d, path, v) = CHOOSE f : Solves(f, Len(path))
    BY DEF Rebuilt, B, E
  <1> HIDE DEF B, E
  <1>3. 0 \in S
    <2>1. Solves([i \in 0..0 |-> B], 0)
      OBVIOUS
    <2>2. QED
      BY <2>1
  <1>4. ASSUME NEW m \in S PROVE m + 1 \in S
    <2>1. PICK f : Solves(f, m)
      OBVIOUS
    <2> DEFINE g == [i \in 0..(m + 1) |-> IF i = m + 1 THEN E(m + 1, f[m]) ELSE f[i]]
    <2>2. \A i \in 0..m : g[i] = f[i] /\ i # m + 1
      OBVIOUS
    <2>3. \A i \in 0..m : f[i] = IF i = 0 THEN B ELSE E(i, f[i - 1])
      BY <2>1
    <2>4. m \in 0..m /\ (m + 1) - 1 = m /\ m + 1 # 0 /\ m + 1 \in 0..(m + 1)
      OBVIOUS
    <2>5. g[m + 1] = E(m + 1, f[m]) /\ g[m] = f[m]
      BY <2>2, <2>4
    <2>6. \A i \in 0..m : i # 0 => i - 1 \in 0..m
      OBVIOUS
    <2>7. \A i \in 0..m : g[i] = IF i = 0 THEN B ELSE E(i, g[i - 1])
      BY <2>2, <2>3, <2>6
    <2>8. \A i \in 0..(m + 1) : i \in 0..m \/ i = m + 1
      OBVIOUS
    <2>9. \A i \in 0..(m + 1) : g[i] = IF i = 0 THEN B ELSE E(i, g[i - 1])
      BY <2>4, <2>5, <2>7, <2>8, Zenon
    <2>10. g = [i \in 0..(m + 1) |-> g[i]]
      OBVIOUS
    <2> HIDE DEF g
    <2>11. Solves(g, m + 1)
      BY <2>9, <2>10
    <2> HIDE DEF Solves
    <2>12. QED
      BY <2>11
  <1>5. Len(path) \in S
    <2>1. S \in SUBSET Nat
      OBVIOUS
    <2> HIDE DEF S
    <2>2. QED
      BY <1>1, <1>3, <1>4, <2>1, SetInduction
  <1>6. \E f : Solves(f, Len(path))
    BY <1>5
  <1>7. Solves(Rebuilt(d, path, v), Len(path))
    <2> HIDE DEF Solves
    <2>1. QED
      BY <1>2, <1>6
  <1> DEFINE G == Rebuilt(d, path, v)
  <1>8. G = [i \in 0..Len(path) |-> IF i = 0 THEN B ELSE E(i, G[i - 1])]
    BY <1>7
  <1>9. \A k \in 0..Len(path) : k + 1 # 0 /\ (k + 1) - 1 = k /\ 0 \in 0..Len(path)
    BY <1>1
  <1> HIDE DEF G, S, Solves
  <1>10. G[0] = B /\ \A k \in 0..Len(path) : k + 1 \in 0..Len(path) => G[k + 1] = E(k + 1, G[k])
    BY <1>1, <1>8, <1>9
  <1>11. ASSUME NEW k \in 0..Len(path), NEW y
         PROVE  E(k + 1, y) = Replaced(Trail(d, path)[Len(path) - (k + 1)], path[Len(path) - k], y)
    <2>1. Len(path) - (k + 1) + 1 = Len(path) - k
      BY <1>1
    <2>2. QED
      BY <2>1 DEF E
  <1>12. QED
    BY <1>10, <1>11 DEF G, B

(* A column, row by row.                                                   *)
LEMMA FilledUnfold ==
  ASSUME NEW d, NEW path, NEW type, NEW list, Len(list) \in Nat
  PROVE  /\ Filled(d, path, type, list)[0] = d
         /\ \A k \in 0..Len(list) : k + 1 \in 0..Len(list) =>
               Filled(d, path, type, list)[k + 1] =
                  IF Filled(d, path, type, list)[k] = Panic THEN Panic ELSE SetIn(Filled(d, path, type, list)[k], Row(path, k), Typed(type, list[k + 1]))
  <1> DEFINE B == d
             E(i, y) == IF y = Panic THEN Panic
                    ELSE SetIn(y, Row(path, i - 1), Typed(type, list[i]))
             Solves(f, m) == f = [i \in 0..m |-> IF i = 0 THEN B ELSE E(i, f[i - 1])]
             S == {m \in Nat : \E f : Solves(f, m)}
  <1>1. Len(list) \in Nat
    OBVIOUS
  <1>2. Filled(d, path, type, list) = CHOOSE f : Solves(f, Len(list))
    BY DEF Filled, B, E
  <1> HIDE DEF B, E
  <1>3. 0 \in S
    <2>1. Solves([i \in 0..0 |-> B], 0)
      OBVIOUS
    <2>2. QED
      BY <2>1
  <1>4. ASSUME NEW m \in S PROVE m + 1 \in S
    <2>1. PICK f : Solves(f, m)
      OBVIOUS
    <2> DEFINE g == [i \in 0..(m + 1) |-> IF i = m + 1 THEN E(m + 1, f[m]) ELSE f[i]]
    <2>2. \A i \in 0..m : g[i] = f[i] /\ i # m + 1
      OBVIOUS
    <2>3. \A i \in 0..m : f[i] = IF i = 0 THEN B ELSE E(i, f[i - 1])
      BY <2>1
    <2>4. m \in 0..m /\ (m + 1) - 1 = m /\ m + 1 # 0 /\ m + 1 \in 0..(m + 1)
      OBVIOUS
    <2>5. g[m + 1] = E(m + 1, f[m]) /\ g[m] = f[m]
      BY <2>2, <2>4
    <2>6. \A i \in 0..m : i # 0 => i - 1 \in 0..m
      OBVIOUS
    <2>7. \A i \in 0..m : g[i] = IF i = 0 THEN B ELSE E(i, g[i - 1])
      BY <2>2, <2>3, <2>6
    <2>8. \A i \in 0..(m + 1) : i \in 0..m \/ i = m + 1
      OBVIOUS
    <2>9. \A i \in 0..(m + 1) : g[i] = IF i = 0 THEN B ELSE E(i, g[i - 1])
      BY <2>4, <2>5, <2>7, <2>8, Zenon
    <2>10. g = [i \in 0..(m + 1) |-> g[i]]
      OBVIOUS
    <2> HIDE DEF g
    <2>11. Solves(g, m + 1)
      BY <2>9, <2>10
    <2> HIDE DEF Solves
    <2>12. QED
      BY <2>11
  <1>5. Len(list) \in S
    <2>1. S \in SUBSET Nat
      OBVIOUS
    <2> HIDE DEF S
    <2>2. QED
      BY <1>1, <1>3, <1>4, <2>1, SetInduction
  <1>6. \E f : Solves(f, Len(list))
    BY <1>5
  <1>7. Solves(Filled(d, path, type, list), Len(list))
    <2> HIDE DEF Solves
    <2>1. QED
      BY <1>2, <1>6
  <1> DEFINE G == Filled(d, path, type, list)
  <1>8. G = [i \in 0..Len(list) |-> IF i = 0 THEN B ELSE E(i, G[i - 1])]
    BY <1>7
  <1>9. \A k \in 0..Len(list) : k + 1 # 0 /\ (k + 1) - 1 = k /\ 0 \in 0..Len(list)
    BY <1>1
  <1> HIDE DEF G, S, Solves
  <1>10. G[0] = B /\ \A k \in 0..Len(list) : k + 1 \in 0..Len(list) => G[k + 1] = E(k + 1, G[k])
    BY <1>1, <1>8, <1>9
  <1>11. ASSUME NEW k \in 0..Len(list), NEW y
         PROVE  E(k + 1, y) = IF y = Panic THEN Panic ELSE SetIn(y, Row(path, k), Typed(type, list[k + 1]))
    <2>1. (k + 1) - 1 = k
      BY <1>1
    <2>2. QED
      BY <2>1 DEF E
  <1>12. QED
    BY <1>10, <1>11 DEF G, B

(* The turns of GetValueFromJson, one after the other.                     *)
LEMMA TurnsUnfold ==
  ASSUME NEW q, NEW n \in Nat
  PROVE  /\ Turns(q, n)[0] = q
         /\ \A k \in 0..n : k + 1 \in 0..n =>
               Turns(q, n)[k + 1] =
                  Deeper(Turns(q, n)[k])
  <1> DEFINE B == q
             E(i, y) == Deeper(y)
             Solves(f, m) == f = [i \in 0..m |-> IF i = 0 THEN B ELSE E(i, f[i - 1])]
             S == {m \in Nat : \E f : Solves(f, m)}
  <1>1. n \in Nat
    OBVIOUS
  <1>2. Turns(q, n) = CHOOSE f : Solves(f, n)
    BY DEF Turns, B, E
  <1> HIDE DEF B, E
  <1>3. 0 \in S
    <2>1. Solves([i \in 0..0 |-> B], 0)
      OBVIOUS
    <2>2. QED
      BY <2>1
  <1>4. ASSUME NEW m \in S PROVE m + 1 \in S
    <2>1. PICK f : Solves(f, m)
      OBVIOUS
    <2> DEFINE g == [i \in 0..(m + 1) |-> IF i = m + 1 THEN E(m + 1, f[m]) ELSE f[i]]
    <2>2. \A i \in 0..m : g[i] = f[i] /\ i # m + 1
      OBVIOUS
    <2>3. \A i \in 0..m : f[i] = IF i = 0 THEN B ELSE E(i, f[i - 1])
      BY <2>1
    <2>4. m \in 0..m /\ (m + 1) - 1 = m /\ m + 1 # 0 /\ m + 1 \in 0..(m + 1)
      OBVIOUS
    <2>5. g[m + 1] = E(m + 1, f[m]) /\ g[m] = f[m]
      BY <2>2, <2>4
    <2>6. \A i \in 0..m : i # 0 => i - 1 \in 0..m
      OBVIOUS
    <2>7. \A i \in 0..m : g[i] = IF i = 0 THEN B ELSE E(i, g[i - 1])
      BY <2>2, <2>3, <2>6
    <2>8. \A i \in 0..(m + 1) : i \in 0..m \/ i = m + 1
      OBVIOUS
    <2>9. \A i \in 0..(m + 1) : g[i] = IF i = 0 THEN B ELSE E(i, g[i - 1])
      BY <2>4, <2>5, <2>7, <2>8, Zenon
    <2>10. g = [i \in 0..(m + 1) |-> g[i]]
      OBVIOUS
    <2> HIDE DEF g
    <2>11. Solves(g, m + 1)
      BY <2>9, <2>10
    <2> HIDE DEF Solves
    <2>12. QED
      BY <2>11
  <1>5. n \in S
    <2>1. S \in SUBSET Nat
      OBVIOUS
    <2> HIDE DEF S
    <2>2. QED
      BY <1>1, <1>3, <1>4, <2>1, SetInduction
  <1>6. \E f : Solves(f, n)
    BY <1>5
  <1>7. Solves(Turns(q, n), n)
    <2> HIDE DEF Solves
    <2>1. QED
      BY <1>2, <1>6
  <1> DEFINE G == Turns(q, n)
  <1>8. G = [i \in 0..n |-> IF i = 0 THEN B ELSE E(i, G[i - 1])]
    BY <1>7
  <1>9. \A k \in 0..n : k + 1 # 0 /\ (k + 1) - 1 = k /\ 0 \in 0..n
    BY <1>1
  <1> HIDE DEF G, S, Solves
  <1>10. G[0] = B /\ \A k \in 0..n : k + 1 \in 0..n => G[k + 1] = E(k + 1, G[k])
    BY <1>1, <1>8, <1>9
  <1>11. ASSUME NEW k \in 0..n, NEW y
         PROVE  E(k + 1, y) = Deeper(y)
    BY DEF E
  <1>12. QED
    BY <1>10, <1>11 DEF G, B

(* A walk, segment by segment.                                             *)
LEMMA WalksUnfold ==
  ASSUME NEW v, NEW path, Len(path) \in Nat
  PROVE  /\ Walks(v, path)[0] = v
         /\ \A k \in 0..Len(path) : k + 1 \in 0..Len(path) =>
               Walks(v, path)[k + 1] =
                  Child(Unwrapped(Walks(v, path)[k]), path[k + 1])
  <1> DEFINE B == v
             E(i, y) == Child(Unwrapped(y), path[i])
             Solves(f, m) == f = [i \in 0..m |-> IF i = 0 THEN B ELSE E(i, f[i - 1])]
             S == {m \in Nat : \E f : Solves(f, m)}
  <1>1. Len(path) \in Nat
    OBVIOUS
  <1>2. Walks(v, path) = CHOOSE f : Solves(f, Len(path))
    BY DEF Walks, B, E
  <1> HIDE DEF B, E
  <1>3. 0 \in S
    <2>1. Solves([i \in 0..0 |-> B], 0)
      OBVIOUS
    <2>2. QED
      BY <2>1
  <1>4. ASSUME NEW m \in S PROVE m + 1 \in S
    <2>1. PICK f : Solves(f, m)
      OBVIOUS
    <2> DEFINE g == [i \in 0..(m + 1) |-> IF i = m + 1 THEN E(m + 1, f[m]) ELSE f[i]]
    <2>2. \A i \in 0..m : g[i] = f[i] /\ i # m + 1
      OBVIOUS
    <2>3. \A i \in 0..m : f[i] = IF i = 0 THEN B ELSE E(i, f[i - 1])
      BY <2>1
    <2>4. m \in 0..m /\ (m + 1) - 1 = m /\ m + 1 # 0 /\ m + 1 \in 0..(m + 1)
      OBVIOUS
    <2>5. g[m + 1] = E(m + 1, f[m]) /\ g[m] = f[m]
      BY <2>2, <2>4
    <2>6. \A i \in 0..m : i # 0 => i - 1 \in 0..m
      OBVIOUS
    <2>7. \A i \in 0..m : g[i] = IF i = 0 THEN B ELSE E(i, g[i - 1])
      BY <2>2, <2>3, <2>6
    <2>8. \A i \in 0..(m + 1) : i \in 0..m \/ i = m + 1
      OBVIOUS
    <2>9. \A i \in 0..(m + 1) : g[i] = IF i = 0 THEN B ELSE E(i, g[i - 1])
      BY <2>4, <2>5, <2>7, <2>8, Zenon
    <2>10. g = [i \in 0..(m + 1) |-> g[i]]
      OBVIOUS
    <2> HIDE DEF g
    <2>11. Solves(g, m + 1)
      BY <2>9, <2>10
    <2> HIDE DEF Solves
    <2>12. QED
      BY <2>11
  <1>5. Len(path) \in S
    <2>1. S \in SUBSET Nat
      OBVIOUS
    <2> HIDE DEF S
    <2>2. QED
      BY <1>1, <1>3, <1>4, <2>1, SetInduction
  <1>6. \E f : Solves(f, Len(path))
    BY <1>5
  <1>7. Solves(Walks(v, path), Len(path))
    <2> HIDE DEF Solves
    <2>1. QED
      BY <1>2, <1>6
  <1> DEFINE G == Walks(v, path)
  <1>8. G = [i \in 0..Len(path) |-> IF i = 0 THEN B ELSE E(i, G[i - 1])]
    BY <1>7
  <1>9. \A k \in 0..Len(path) : k + 1 # 0 /\ (k + 1) - 1 = k /\ 0 \in 0..Len(path)
    BY <1>1
  <1> HIDE DEF G, S, Solves
  <1>10. G[0] = B /\ \A k \in 0..Len(path) : k + 1 \in 0..Len(path) => G[k + 1] = E(k + 1, G[k])
    BY <1>1, <1>8, <1>9
  <1>11. ASSUME NEW k \in 0..Len(path), NEW y
         PROVE  E(k + 1, y) = Child(Unwrapped(y), path[k + 1])
    BY DEF E
  <1>12. QED
    BY <1>10, <1>11 DEF G, B

-----------------------------------------------------------------------------
(* A set of values with all that they are made of, and a value: what is in *)
(* such a set.                                                             *)
Closed(S) == \A x \in S : WellFormed(x) /\ Kids(x) \subseteq S
Value(v)  == \E S : Closed(S) /\ v \in S

Ways == Seq(Segs \cup {Each}) \* paths
Plain == Seq(Segs)            \* paths without #

(* What a value is not, and what the parts of it are.                      *)
LEMMA ValueFacts ==
  ASSUME NEW v, Value(v)
  PROVE  /\ WellFormed(v)
         /\ v # Missing /\ v # Panic /\ Found(v)
         /\ v.kind \in {"nil", "false", "empty", "garbled", "num", "text", "json", "obj", "arr"}
         /\ v.kind = "json" => v = Json(v.d)
         /\ v.kind = "obj" => v = Obj(v.f) /\ DOMAIN v.f \subseteq Segs
         /\ v.kind = "arr" => v = Arr(v.e) /\ v.e \in Seq(ToSet(v.e))
         /\ v.kind = "empty" => v = Empty
         /\ v.kind = "nil" => v = Nil
  <1>1. WellFormed(v)
    BY DEF Value, Closed
  <1>2. v.kind # "missing" /\ v.kind # "panic"
    BY <1>1 DEF WellFormed, Nil, False, Empty, Garbled
  <1>3. v # Missing /\ v # Panic
    BY <1>2 DEF Missing, Panic
  <1>4. QED
    BY <1>1, <1>3 DEF WellFormed, Nil, False, Empty, Garbled, Found

(* The parts of a value are values.                                        *)
LEMMA KidsAreValues ==
  ASSUME NEW v, Value(v), NEW x \in Kids(v)
  PROVE  Value(x)
  BY DEF Value, Closed

(* Values without parts.                                                   *)
LEMMA PlainValues ==
  /\ Value(Nil) /\ Value(Empty) /\ Value(False) /\ Value(Garbled)
  /\ \A n \in Nat : Value(Num(n))
  /\ \A c : Value(Text(c))
  <1>1. \A v : WellFormed(v) /\ Kids(v) = {} => Value(v)
    <2>1. \A v : WellFormed(v) /\ Kids(v) = {} => Closed({v})
      BY DEF Closed
    <2>2. QED
      BY <2>1 DEF Value
  <1>2. WellFormed(Nil) /\ Kids(Nil) = {}
    BY DEF WellFormed, Kids, Nil
  <1>3. WellFormed(Empty) /\ Kids(Empty) = {}
    BY DEF WellFormed, Kids, Empty
  <1>4. \A n \in Nat : WellFormed(Num(n)) /\ Kids(Num(n)) = {}
    BY DEF WellFormed, Kids, Num
  <1>5. \A c : WellFormed(Text(c)) /\ Kids(Text(c)) = {}
    BY DEF WellFormed, Kids, Text
  <1>6. /\ WellFormed(False) /\ Kids(False) = {}
        /\ WellFormed(Garbled) /\ Kids(Garbled) = {}
    BY DEF WellFormed, Kids, False, Garbled
  <1>7. QED
    BY <1>1, <1>2, <1>3, <1>4, <1>5, <1>6

(* A value is made of values.                                              *)
LEMMA Built ==
  ASSUME NEW v, WellFormed(v), \A x \in Kids(v) : Value(x)
  PROVE  Value(v)
  <1> DEFINE C(x) == CHOOSE S : Closed(S) /\ x \in S
             T == {v} \cup UNION {C(x) : x \in Kids(v)}
  <1>1. \A x \in Kids(v) : Closed(C(x)) /\ x \in C(x)
    BY DEF Value
  <1> HIDE DEF C
  <1>2. \A y \in T : WellFormed(y) /\ Kids(y) \subseteq T
    <2>1. CASE TRUE
      <3>1. TAKE y \in T
      <3>2. CASE y = v
        BY <1>1, <3>2
      <3>3. ASSUME NEW x \in Kids(v), y \in C(x)
            PROVE  WellFormed(y) /\ Kids(y) \subseteq T
        BY <1>1, <3>3 DEF Closed
      <3>4. QED
        BY <3>2, <3>3
    <2>2. QED
      BY <2>1
  <1>3. QED
    BY <1>2 DEF Value, Closed

(* The JSON text of a value is one.                                        *)
LEMMA JsonIsValue ==
  ASSUME NEW d, Value(d)
  PROVE  Value(Json(d))
  <1>1. WellFormed(Json(d)) /\ Kids(Json(d)) = {d}
    BY DEF WellFormed, Kids, Json
  <1>2. QED
    BY <1>1, Built

(* So is an object of values ...                                           *)
LEMMA ObjIsValue ==
  ASSUME NEW f, DOMAIN f \subseteq Segs, \A s \in DOMAIN f : Value(f[s])
  PROVE  Value(Obj(f))
  <1>1. WellFormed(Obj(f)) /\ Kids(Obj(f)) = {f[s] : s \in DOMAIN f}
    BY DEF WellFormed, Kids, Obj
  <1>2. QED
    BY <1>1, Built

(* ... and an array of them.                                               *)
LEMMA ArrIsValue ==
  ASSUME NEW e, NEW n \in Nat, e = [i \in 1..n |-> e[i]], \A i \in 1..n : Value(e[i])
  PROVE  Value(Arr(e))
  <1>1. DOMAIN e = 1..n
    BY Zenon
  <1>2. \A i \in 1..n : e[i] \in ToSet(e)
    BY <1>1 DEF ToSet
  <1>3. e \in Seq(ToSet(e))
    BY <1>2
  <1>4. WellFormed(Arr(e)) /\ Kids(Arr(e)) = ToSet(e)
    BY <1>3 DEF WellFormed, Kids, Arr
  <1>5. \A x \in ToSet(e) : Value(x)
    BY <1>1 DEF ToSet
  <1>6. QED
    BY <1>4, <1>5, Built

(* The elements of an array.                                               *)
LEMMA Elements ==
  ASSUME NEW v, Value(v), v.kind = "arr"
  PROVE  /\ Len(v.e) \in Nat /\ v.e = [i \in 1..Len(v.e) |-> v.e[i]]
         /\ \A i \in 1..Len(v.e) : v.e[i] \in Kids(v) /\ Value(v.e[i])
  <1>1. v = Arr(v.e) /\ v.e \in Seq(ToSet(v.e))
    BY ValueFacts
  <1>2. Kids(v) = ToSet(v.e)
    BY DEF Kids
  <1>3. Len(v.e) \in Nat /\ DOMAIN v.e = 1..Len(v.e)
    BY <1>1, LenProperties
  <1>4. \A i \in 1..Len(v.e) : v.e[i] \in Kids(v)
    BY <1>2, <1>3 DEF ToSet
  <1>5. v.e = [i \in 1..Len(v.e) |-> v.e[i]]
    BY <1>1
  <1>6. QED
    BY <1>3, <1>4, <1>5, KidsAreValues

(* What a segment leads to.                                                *)
LEMMA ChildFacts ==
  ASSUME NEW d, Value(d), NEW s
  PROVE  \/ Child(d, s) = Missing
         \/ Child(d, s) \in Kids(d) /\ Value(Child(d, s)) /\ IsTree(d)
  <1>1. CASE d.kind = "obj" /\ s \in DOMAIN d.f
    <2>1. Child(d, s) = d.f[s]
      BY <1>1 DEF Child
    <2>2. Child(d, s) \in Kids(d)
      BY <1>1, <2>1 DEF Kids
    <2>3. QED
      BY <1>1, <2>2, KidsAreValues DEF IsTree
  <1>2. CASE d.kind = "arr" /\ s \in Nat /\ s < Len(d.e)
    <2>1. Child(d, s) = d.e[s + 1]
      BY <1>2 DEF Child
    <2>2. s + 1 \in 1..Len(d.e)
      BY <1>2, Elements
    <2>3. QED
      BY <1>2, <2>1, <2>2, Elements DEF IsTree
  <1>3. CASE ~(d.kind = "obj" /\ s \in DOMAIN d.f) /\ ~(d.kind = "arr" /\ s \in Nat /\ s < Len(d.e))
    BY <1>3 DEF Child
  <1>4. QED
    BY <1>1, <1>2, <1>3

(* The levels of a value, one by one.                                      *)
LEMMA LevelsAt ==
  ASSUME NEW v, NEW n \in Nat
  PROVE  /\ Levels(v, n)[0] = {v}
         /\ \A i \in 0..n : i + 1 \in 0..n =>
               /\ Levels(v, n)[i + 1] = UNION {Kids(x) : x \in Levels(v, n)[i]}
               /\ \A x \in Levels(v, n)[i] : Kids(x) \subseteq Levels(v, n)[i + 1]
  <1> DEFINE L == Levels(v, n)
             K(i) == UNION {Kids(x) : x \in L[i]}
  <1>1. L = [i \in 0..n |-> IF i = 0 THEN {v} ELSE K(i - 1)]
    BY LevelsUnfold
  <1> HIDE DEF L, K
  <1>2. \A i \in 0..n : i + 1 # 0 /\ (i + 1) - 1 = i /\ 0 \in 0..n
    OBVIOUS
  <1>3. L[0] = {v} /\ \A i \in 0..n : i + 1 \in 0..n => L[i + 1] = K(i)
    BY <1>1, <1>2
  <1>4. \A i \in 0..n : \A x \in L[i] : Kids(x) \subseteq K(i)
    BY DEF K
  <1>5. QED
    BY <1>3, <1>4 DEF L, K

(* The levels of a value are made of values.                               *)
LEMMA LevelsOfValue ==
  ASSUME NEW v, Value(v), NEW n \in Nat
  PROVE  \A i \in 0..n : \A x \in Levels(v, n)[i] : Value(x)
  <1> DEFINE S == {m \in Nat : m \in 0..n => \A x \in Levels(v, n)[m] : Value(x)}
  <1>1. 0 \in S
    BY LevelsAt
  <1>2. ASSUME NEW m \in S PROVE m + 1 \in S
    <2>1. SUFFICES ASSUME m + 1 \in 0..n PROVE \A x \in Levels(v, n)[m + 1] : Value(x)
      OBVIOUS
    <2>2. \A x \in Levels(v, n)[m] : Value(x)
      BY <2>1
    <2>3. Levels(v, n)[m + 1] = UNION {Kids(x) : x \in Levels(v, n)[m]}
      BY LevelsAt, <2>1
    <2>4. QED
      BY <2>2, <2>3, KidsAreValues
  <1>3. S \in SUBSET Nat
    OBVIOUS
  <1> HIDE DEF S
  <1>4. S = Nat
    BY <1>1, <1>2, <1>3, SetInduction
  <1> USE DEF S
  <1>5. QED
    BY <1>4

(* A value is one as the type invariants of the models have it.            *)
LEMMA ValueIsValue ==
  ASSUME NEW v, Value(v)
  PROVE  IsValue(v)
  BY LevelsOfValue, DepthAssumption, ValueFacts DEF IsValue

(* A value that ends within Depth levels is one.                           *)
LEMMA EndingIsValue ==
  ASSUME NEW v, IsValue(v), Levels(v, Depth)[Depth] = {}
  PROVE  Value(v)
  <1> DEFINE S == UNION {Levels(v, Depth)[i] : i \in 0..Depth}
  <1>1. Levels(v, Depth)[0] = {v} /\ 0 \in 0..Depth
    BY LevelsAt, DepthAssumption
  <1>2. v \in S
    BY <1>1
  <1>3. ASSUME NEW x \in S PROVE WellFormed(x) /\ Kids(x) \subseteq S
    <2>1. PICK i \in 0..Depth : x \in Levels(v, Depth)[i]
      OBVIOUS
    <2>2. i + 1 \in 0..Depth
      BY <2>1, DepthAssumption
    <2>3. Kids(x) \subseteq Levels(v, Depth)[i + 1]
      BY LevelsAt, <2>1, <2>2, DepthAssumption
    <2>4. QED
      BY <2>1, <2>2, <2>3 DEF IsValue
  <1> HIDE DEF S
  <1>4. QED
    BY <1>2, <1>3 DEF Value, Closed

-----------------------------------------------------------------------------
-----------------------------------------------------------------------------
(* The rest of a path.                                                     *)
LEMMA Rest ==
  ASSUME NEW X, NEW p \in Seq(X), p # <<>>
  PROVE  /\ Tail(p) \in Seq(X) /\ Len(Tail(p)) = Len(p) - 1 /\ Len(Tail(p)) \in Nat
         /\ Len(p) \in Nat /\ Len(p) >= 1 /\ p[1] \in X
         /\ \A k \in 1..Len(Tail(p)) : Tail(p)[k] = p[k + 1]
  BY HeadTailProperties, EmptySeq, LenProperties

(* The levels of a part are below those of the whole.                      *)
LEMMA LevelsBelow ==
  ASSUME NEW d, NEW c \in Kids(d), NEW n \in Nat
  PROVE  \A i \in 0..n : Levels(c, n)[i] \subseteq Levels(d, n + 1)[i + 1]
  <1> DEFINE S == {m \in Nat : m \in 0..n => Levels(c, n)[m] \subseteq Levels(d, n + 1)[m + 1]}
  <1>1. n + 1 \in Nat
    OBVIOUS
  <1>2. 0 \in S
    <2>1. Levels(d, n + 1)[0 + 1] = UNION {Kids(x) : x \in {d}}
      BY <1>1, LevelsAt
    <2>2. c \in Levels(d, n + 1)[0 + 1]
      BY <2>1
    <2>3. Levels(c, n)[0] = {c}
      BY LevelsAt
    <2>4. QED
      BY <2>2, <2>3
  <1>3. ASSUME NEW m \in S PROVE m + 1 \in S
    <2>1. SUFFICES ASSUME m + 1 \in 0..n
                   PROVE  Levels(c, n)[m + 1] \subseteq Levels(d, n + 1)[(m + 1) + 1]
      OBVIOUS
    <2>2. Levels(c, n)[m + 1] = UNION {Kids(x) : x \in Levels(c, n)[m]}
      BY <2>1, LevelsAt
    <2>3. m + 1 \in 0..(n + 1) /\ (m + 1) + 1 \in 0..(n + 1)
      BY <2>1
    <2>4. Levels(d, n + 1)[(m + 1) + 1] = UNION {Kids(x) : x \in Levels(d, n + 1)[m + 1]}
      BY <1>1, <2>3, LevelsAt
    <2>5. Levels(c, n)[m] \subseteq Levels(d, n + 1)[m + 1]
      BY <2>1
    <2>6. QED
      BY <2>2, <2>4, <2>5
  <1>4. S \in SUBSET Nat
    OBVIOUS
  <1> HIDE DEF S
  <1>5. S = Nat
    BY <1>2, <1>3, <1>4, SetInduction
  <1> USE DEF S
  <1>6. QED
    BY <1>5

(* A step looks no further than the parts of the value.                    *)
LEMMA StepSame ==
  ASSUME NEW x, Value(x), NEW seg, NEW rest, NEW other, NEW more,
         \A y \in Kids(x) : rest[y] = other[y]
  PROVE  Step(x, seg, rest, more) = Step(x, seg, other, more)
  <1>1. CASE seg # Each
    <2>1. Child(x, seg) # Missing => rest[Child(x, seg)] = other[Child(x, seg)]
      BY ChildFacts
    <2>2. QED
      BY <1>1, <2>1 DEF Step
  <1>2. CASE seg = Each /\ x.kind = "arr"
    <2>1. \A i \in 1..Len(x.e) : rest[x.e[i]] = other[x.e[i]]
      BY <1>2, Elements
    <2>2. [i \in 1..Len(x.e) |-> rest[x.e[i]]] = [i \in 1..Len(x.e) |-> other[x.e[i]]]
      BY <2>1
    <2>3. QED
      BY <1>2, <2>2 DEF Step
  <1>3. CASE seg = Each /\ x.kind # "arr"
    BY <1>3 DEF Step
  <1>4. QED
    BY <1>1, <1>2, <1>3

(* Looking up, from the end of the path.                                   *)
LEMMA LookupsAt ==
  ASSUME NEW d, NEW p \in Ways
  PROVE  /\ \A x \in Levels(d, Len(p))[Len(p)] : Lookups(d, p)[0][x] = x
         /\ \A k \in 0..Len(p) : k + 1 \in 0..Len(p) =>
               \A x \in Levels(d, Len(p))[Len(p) - (k + 1)] :
                  Lookups(d, p)[k + 1][x] = Step(x, p[Len(p) - k], Lookups(d, p)[k], k # 0)
  <1> DEFINE L == Lookups(d, p)
             n == Len(p)
             V(k) == Levels(d, n)[n - k]
             F(i) == [x \in V(i) |-> Step(x, p[n - i + 1], L[i - 1], i > 1)]
  <1>1. n \in Nat
    BY LenProperties DEF Ways
  <1>2. L = [i \in 0..n |-> IF i = 0 THEN [x \in V(0) |-> x] ELSE F(i)]
    BY <1>1, LookupsUnfold
  <1>3. \A k \in 0..n : k + 1 \in 0..n =>
           L[k + 1] = [x \in V(k + 1) |-> Step(x, p[n - k], L[k], k # 0)]
    <2>1. TAKE k \in 0..n
    <2>2. HAVE k + 1 \in 0..n
    <2>3. k + 1 # 0 /\ (k + 1) - 1 = k /\ n - (k + 1) + 1 = n - k /\ ((k + 1 > 1) <=> (k # 0))
      BY <1>1
    <2>4. L[k + 1] = F(k + 1)
      <3> HIDE DEF F, V, L
      <3>1. QED
        BY <1>2, <2>2, <2>3
    <2>5. CASE k = 0
      BY <2>3, <2>4, <2>5
    <2>6. CASE k # 0
      BY <2>3, <2>4, <2>6
    <2>7. QED
      BY <2>5, <2>6
  <1>4. L[0] = [x \in V(0) |-> x] /\ V(0) = Levels(d, n)[n]
    <2>1. 0 \in 0..n /\ n - 0 = n
      BY <1>1
    <2>2. V(0) = Levels(d, n)[n]
      BY <2>1
    <2> HIDE DEF V, F, L
    <2>3. QED
      BY <1>2, <2>1, <2>2
  <1>5. QED
    BY <1>3, <1>4

(* Looking up the rest of a path does not depend on what is above.         *)
LEMMA LookupsBelow ==
  ASSUME NEW d, Value(d), NEW c \in Kids(d), NEW p \in Ways, p # <<>>
  PROVE  \A k \in 0..Len(Tail(p)) : \A x \in Levels(c, Len(Tail(p)))[Len(Tail(p)) - k] :
            Lookups(d, p)[k][x] = Lookups(c, Tail(p))[k][x]
  <1> DEFINE q == Tail(p)
             m == Len(q)
             S == {k \in Nat : k \in 0..m => \A x \in Levels(c, m)[m - k] :
                                 Lookups(d, p)[k][x] = Lookups(c, q)[k][x]}
  <1>1. q \in Ways /\ m \in Nat /\ Len(p) = m + 1 /\ \A k \in 1..m : q[k] = p[k + 1]
    BY Rest DEF Ways
  <1>2. \A i \in 0..m : Levels(c, m)[i] \subseteq Levels(d, m + 1)[i + 1]
    BY <1>1, LevelsBelow
  <1>3. Value(c)
    BY KidsAreValues
  <1>4. \A i \in 0..m : \A x \in Levels(c, m)[i] : Value(x)
    BY <1>1, <1>3, LevelsOfValue
  <1> HIDE DEF q, m
  <1>5. 0 \in S
    <2>1. \A x \in Levels(c, m)[m] : Lookups(c, q)[0][x] = x
      BY <1>1, LookupsAt DEF m
    <2>2. \A x \in Levels(d, m + 1)[m + 1] : Lookups(d, p)[0][x] = x
      BY <1>1, LookupsAt
    <2>3. m - 0 = m /\ m \in 0..m
      BY <1>1
    <2>4. QED
      BY <1>2, <2>1, <2>2, <2>3
  <1>6. ASSUME NEW k \in S PROVE k + 1 \in S
    <2>1. SUFFICES ASSUME k + 1 \in 0..m, NEW x \in Levels(c, m)[m - (k + 1)]
                   PROVE  Lookups(d, p)[k + 1][x] = Lookups(c, q)[k + 1][x]
      OBVIOUS
    <2>2. /\ k \in 0..m /\ k \in 0..(m + 1) /\ k + 1 \in 0..(m + 1)
          /\ m - (k + 1) \in 0..m /\ (m - (k + 1)) + 1 = m - k
          /\ (m + 1) - (k + 1) = m - k /\ m - k \in 1..m /\ (m - k) + 1 = (m + 1) - k
      BY <1>1, <2>1
    <2>3. Lookups(c, q)[k + 1][x] = Step(x, q[m - k], Lookups(c, q)[k], k # 0)
      BY <1>1, <2>1, <2>2, LookupsAt DEF m
    <2>4. x \in Levels(d, m + 1)[m - k]
      BY <1>2, <2>1, <2>2
    <2>5. Lookups(d, p)[k + 1][x] = Step(x, p[(m + 1) - k], Lookups(d, p)[k], k # 0)
      <3>1. k \in 0..Len(p) /\ k + 1 \in 0..Len(p) /\ x \in Levels(d, Len(p))[Len(p) - (k + 1)]
        BY <1>1, <2>2, <2>4
      <3>2. Lookups(d, p)[k + 1][x] = Step(x, p[Len(p) - k], Lookups(d, p)[k], k # 0)
        BY <3>1, LookupsAt
      <3>3. QED
        BY <1>1, <3>2
    <2>6. q[m - k] = p[(m + 1) - k]
      BY <1>1, <2>2
    <2>7. PICK i \in 0..m : i = m - (k + 1) /\ i + 1 = m - k /\ i + 1 \in 0..m
      BY <1>1, <2>2
    <2>8. \A y \in Kids(x) : y \in Levels(c, m)[m - k]
      <3>1. Kids(x) \subseteq Levels(c, m)[i + 1]
        BY <1>1, <2>1, <2>7, LevelsAt
      <3>2. QED
        BY <2>7, <3>1
    <2>9. \A y \in Kids(x) : Lookups(d, p)[k][y] = Lookups(c, q)[k][y]
      BY <2>2, <2>8
    <2>10. Value(x)
      BY <1>4, <2>1, <2>2
    <2>11. Step(x, q[m - k], Lookups(d, p)[k], k # 0) = Step(x, q[m - k], Lookups(c, q)[k], k # 0)
      BY <2>9, <2>10, StepSame
    <2>12. QED
      BY <2>3, <2>5, <2>6, <2>11
  <1>7. S \in SUBSET Nat
    OBVIOUS
  <1> HIDE DEF S
  <1>8. S = Nat
    BY <1>5, <1>6, <1>7, SetInduction
  <1> USE DEF S
  <1>9. QED
    BY <1>1, <1>8 DEF q, m

(* The empty path finds the value itself.                                  *)
LEMMA AtEmpty ==
  ASSUME NEW d
  PROVE  At(d, <<>>) = d
  <1>1. <<>> \in Ways /\ Len(<<>>) = 0
    BY DEF Ways
  <1>2. Levels(d, 0)[0] = {d}
    BY LevelsAt
  <1>3. Lookups(d, <<>>)[0][d] = d
    BY <1>1, <1>2, LookupsAt
  <1>4. QED
    BY <1>1, <1>3 DEF At

(* gjson.Get, one segment at a time.                                       *)
LEMMA AtStep ==
  ASSUME NEW d, Value(d), NEW p \in Ways, p # <<>>
  PROVE  /\ p[1] # Each /\ Child(d, p[1]) = Missing => At(d, p) = Missing
         /\ p[1] # Each /\ Child(d, p[1]) # Missing => At(d, p) = At(Child(d, p[1]), Tail(p))
         /\ p[1] = Each /\ d.kind # "arr" => At(d, p) = Missing
         /\ p[1] = Each /\ d.kind = "arr" /\ Tail(p) = <<>> => At(d, p) = Num(Len(d.e))
         /\ p[1] = Each /\ d.kind = "arr" /\ Tail(p) # <<>> =>
               At(d, p) = Arr(FoundIn([i \in 1..Len(d.e) |-> At(d.e[i], Tail(p))]))
  <1> DEFINE q == Tail(p)
             m == Len(q)
             L == Lookups(d, p)
  <1>1. q \in Ways /\ m \in Nat /\ Len(p) = m + 1
    BY Rest DEF Ways
  <1>2. Levels(d, m + 1)[0] = {d}
    BY <1>1, LevelsAt
  <1>3. m \in 0..(m + 1) /\ m + 1 \in 0..(m + 1) /\ (m + 1) - (m + 1) = 0 /\ (m + 1) - m = 1
        /\ m \in 0..m /\ m - m = 0
    BY <1>1
  <1>4. L[m + 1][d] = Step(d, p[1], L[m], m # 0)
    <2>1. d \in Levels(d, Len(p))[Len(p) - (m + 1)]
      BY <1>1, <1>2, <1>3
    <2>2. Len(p) - m = 1
      BY <1>1, <1>3
    <2>3. m \in 0..Len(p) /\ m + 1 \in 0..Len(p)
      BY <1>1, <1>3
    <2> HIDE DEF m, L
    <2>4. Lookups(d, p)[m + 1][d] = Step(d, p[Len(p) - m], Lookups(d, p)[m], m # 0)
      BY <2>1, <2>3, LookupsAt
    <2>5. QED
      BY <2>2, <2>4 DEF L
  <1>5. At(d, p) = Step(d, p[1], L[m], m # 0)
    BY <1>1, <1>4 DEF At
  <1>6. \A c \in Kids(d) : L[m][c] = At(c, q)
    <2>1. TAKE c \in Kids(d)
    <2>2. c \in Levels(c, m)[m - m]
      BY <1>1, <1>3, LevelsAt
    <2>3. L[m][c] = Lookups(c, q)[m][c]
      BY <1>3, <2>2, LookupsBelow
    <2>4. QED
      BY <2>3 DEF At
  <1>7. m # 0 <=> q # <<>>
    BY <1>1, EmptySeq DEF Ways
  <1> HIDE DEF L, m, q
  <1>8. p[1] # Each => At(d, p) = IF Child(d, p[1]) = Missing THEN Missing ELSE L[m][Child(d, p[1])]
    BY <1>5 DEF Step
  <1>9. Child(d, p[1]) # Missing => L[m][Child(d, p[1])] = At(Child(d, p[1]), q)
    BY <1>6, ChildFacts
  <1>10. p[1] = Each /\ d.kind # "arr" => At(d, p) = Missing
    BY <1>5 DEF Step
  <1>11. ASSUME p[1] = Each, d.kind = "arr"
         PROVE  At(d, p) = IF q # <<>> THEN Arr(FoundIn([i \in 1..Len(d.e) |-> At(d.e[i], q)]))
                           ELSE Num(Len(d.e))
    <2>1. \A i \in 1..Len(d.e) : L[m][d.e[i]] = At(d.e[i], q)
      BY <1>6, <1>11, Elements
    <2>2. [i \in 1..Len(d.e) |-> L[m][d.e[i]]] = [i \in 1..Len(d.e) |-> At(d.e[i], q)]
      BY <2>1
    <2>3. At(d, p) = IF m # 0 THEN Arr(FoundIn([i \in 1..Len(d.e) |-> L[m][d.e[i]]]))
                     ELSE Num(Len(d.e))
      BY <1>5, <1>11 DEF Step
    <2>4. QED
      BY <1>7, <2>2, <2>3
  <1>12. QED
    BY <1>8, <1>9, <1>10, <1>11 DEF q

-----------------------------------------------------------------------------
-----------------------------------------------------------------------------
(* A value, or nothing at all.                                             *)
Node(c) == c = Missing \/ Value(c)

(* What is missing or a value, and what is below it.                       *)
LEMMA NodeFacts ==
  ASSUME NEW c, Node(c)
  PROVE  /\ c.kind \in {"missing", "nil", "false", "empty", "garbled",
                        "num", "text", "json", "obj", "arr"}
         /\ c.kind = "obj" => c = Obj(c.f) /\ Value(c)
         /\ c.kind = "arr" => c = Arr(c.e) /\ Value(c)
         /\ \A s : Node(Child(c, s))
  <1>1. CASE c = Missing
    BY <1>1 DEF Missing, Child, Node
  <1>2. CASE Value(c)
    BY <1>2, ValueFacts, ChildFacts DEF Node
  <1>3. QED
    BY <1>1, <1>2 DEF Node

(* The first step of a trail.                                              *)
LEMMA TrailStep ==
  ASSUME NEW d, NEW p \in Ways
  PROVE  /\ Trail(d, p)[0] = d
         /\ p # <<>> => \A k \in 0..Len(Tail(p)) :
                           Trail(d, p)[k + 1] = Trail(Child(d, p[1]), Tail(p))[k]
  <1> DEFINE n == Len(p)
             q == Tail(p)
             m == Len(q)
             c == Child(d, p[1])
  <1>1. n \in Nat
    BY LenProperties DEF Ways
  <1>2. Trail(d, p)[0] = d /\ \A k \in 0..n : k + 1 \in 0..n =>
           Trail(d, p)[k + 1] = Child(Trail(d, p)[k], p[k + 1])
    BY TrailUnfold
  <1>3. SUFFICES ASSUME p # <<>>
                 PROVE  \A k \in 0..m : Trail(d, p)[k + 1] = Trail(c, q)[k]
    BY <1>2
  <1>4. q \in Ways /\ m \in Nat /\ n = m + 1 /\ \A k \in 1..m : q[k] = p[k + 1]
    BY <1>3, Rest DEF Ways
  <1>5. Trail(c, q)[0] = c /\ \A k \in 0..m : k + 1 \in 0..m =>
           Trail(c, q)[k + 1] = Child(Trail(c, q)[k], q[k + 1])
    <2>1. Len(q) \in Nat /\ m = Len(q)
      BY <1>4
    <2> HIDE DEF q, c, m
    <2>2. QED
      BY <2>1, TrailUnfold
  <1> DEFINE S == {k \in Nat : k \in 0..m => Trail(d, p)[k + 1] = Trail(c, q)[k]}
  <1> HIDE DEF m, q, n
  <1>6. 0 \in S
    <2>1. 0 \in 0..n /\ 0 + 1 \in 0..n
      BY <1>1, <1>4
    <2>2. QED
      BY <1>2, <1>5, <2>1
  <1>7. ASSUME NEW k \in S PROVE k + 1 \in S
    <2>1. SUFFICES ASSUME k + 1 \in 0..m
                   PROVE  Trail(d, p)[(k + 1) + 1] = Trail(c, q)[k + 1]
      OBVIOUS
    <2>2. k \in 0..m /\ k + 1 \in 0..n /\ (k + 1) + 1 \in 0..n /\ k + 1 \in 1..m
      BY <1>4, <2>1
    <2>3. Trail(d, p)[(k + 1) + 1] = Child(Trail(d, p)[k + 1], p[(k + 1) + 1])
      BY <1>2, <2>2
    <2>4. Trail(c, q)[k + 1] = Child(Trail(c, q)[k], q[k + 1])
      BY <1>5, <2>1, <2>2
    <2>5. q[k + 1] = p[(k + 1) + 1]
      BY <1>4, <2>2
    <2>6. Trail(d, p)[k + 1] = Trail(c, q)[k]
      BY <2>2
    <2>7. QED
      BY <2>3, <2>4, <2>5, <2>6
  <1>8. S \in SUBSET Nat
    OBVIOUS
  <1> HIDE DEF S, c
  <1>9. S = Nat
    BY <1>6, <1>7, <1>8, SetInduction
  <1>10. \A k \in 0..m : k \in S
    BY <1>4, <1>9
  <1>11. QED
    BY <1>10 DEF S

(* Setting at the empty path replaces the whole.                           *)
LEMMA SetEmpty ==
  ASSUME NEW d, NEW v
  PROVE  SetIn(d, <<>>, v) = v
  <1>1. Len(<<>>) = 0 /\ 0 \in 0..0
    OBVIOUS
  <1>2. Rebuilt(d, <<>>, v)[0] = v
    BY <1>1, RebuiltUnfold
  <1>3. QED
    BY <1>1, <1>2 DEF SetIn

(* sjson.Set, one segment at a time.                                       *)
LEMMA SetStep ==
  ASSUME NEW d, NEW p \in Ways, p # <<>>, NEW v
  PROVE  SetIn(d, p, v) = Replaced(d, p[1], SetIn(Child(d, p[1]), Tail(p), v))
  <1> DEFINE n == Len(p)
             q == Tail(p)
             m == Len(q)
             c == Child(d, p[1])
             B == Rebuilt(d, p, v)
             C == Rebuilt(c, q, v)
  <1>1. q \in Ways /\ m \in Nat /\ n = m + 1 /\ n \in Nat /\ \A k \in 1..m : q[k] = p[k + 1]
    BY Rest DEF Ways
  <1>2. B[0] = v /\ \A k \in 0..n : k + 1 \in 0..n =>
           B[k + 1] = Replaced(Trail(d, p)[n - (k + 1)], p[n - k], B[k])
    BY RebuiltUnfold
  <1>3. C[0] = v /\ \A k \in 0..m : k + 1 \in 0..m =>
           C[k + 1] = Replaced(Trail(c, q)[m - (k + 1)], q[m - k], C[k])
    <2>1. Len(q) \in Nat /\ m = Len(q)
      BY <1>1
    <2> HIDE DEF q, c, m, n, B
    <2>2. QED
      BY <2>1, RebuiltUnfold DEF C
  <1>4. Trail(d, p)[0] = d /\ \A k \in 0..m : Trail(d, p)[k + 1] = Trail(c, q)[k]
    BY TrailStep
  <1>5. SetIn(d, p, v) = B[n] /\ SetIn(c, q, v) = C[m]
    BY DEF SetIn
  <1> DEFINE S == {k \in Nat : k \in 0..m => B[k] = C[k]}
  <1> HIDE DEF B, C, m, q, n, c
  <1>6. 0 \in S
    BY <1>2, <1>3
  <1>7. ASSUME NEW k \in S PROVE k + 1 \in S
    <2>1. SUFFICES ASSUME k + 1 \in 0..m PROVE B[k + 1] = C[k + 1]
      OBVIOUS
    <2>2. PICK j \in 0..m : j = m - (k + 1) /\ j + 1 = n - (k + 1) /\ j + 1 = m - k
                            /\ (m - k) + 1 = n - k /\ m - k \in 1..m
      BY <1>1, <2>1
    <2>3. k \in 0..m /\ k \in 0..n /\ k + 1 \in 0..n
      BY <1>1, <2>1
    <2>4. B[k + 1] = Replaced(Trail(d, p)[j + 1], p[n - k], B[k])
      BY <1>2, <2>2, <2>3
    <2>5. C[k + 1] = Replaced(Trail(c, q)[j], q[m - k], C[k])
      BY <1>3, <2>1, <2>2, <2>3
    <2>6. q[m - k] = p[n - k]
      BY <1>1, <2>2
    <2>7. Trail(d, p)[j + 1] = Trail(c, q)[j] /\ B[k] = C[k]
      BY <1>4, <2>3
    <2>8. QED
      BY <2>4, <2>5, <2>6, <2>7
  <1>8. S \in SUBSET Nat
    OBVIOUS
  <1> HIDE DEF S
  <1>9. S = Nat
    BY <1>6, <1>7, <1>8, SetInduction
  <1>10. B[m] = C[m]
    BY <1>1, <1>9 DEF S
  <1>11. m \in 0..n /\ m + 1 \in 0..n /\ n - (m + 1) = 0 /\ n - m = 1
    BY <1>1
  <1>12. B[n] = Replaced(Trail(d, p)[0], p[1], B[m])
    BY <1>1, <1>2, <1>11
  <1>13. QED
    BY <1>4, <1>5, <1>10, <1>12 DEF c, q

(* An object or array with a part put in: that part is there, and the      *)
(* others stay.                                                            *)
LEMMA ReplacedFacts ==
  ASSUME NEW c, Node(c), NEW seg \in Segs, NEW x, Value(x), Replaced(c, seg, x) # Panic
  PROVE  LET R == Replaced(c, seg, x)
         IN  /\ Value(R) /\ IsTree(R)
             /\ Child(R, seg) = x
             /\ \A t \in Segs : t # seg /\ Child(c, t) # Missing => Child(R, t) = Child(c, t)
             /\ IsTree(c) => R.kind = c.kind
  <1> DEFINE R == Replaced(c, seg, x)
             f == IF c.kind = "obj" THEN c.f ELSE <<>>
             e == IF c.kind = "arr" THEN c.e ELSE <<>>
             n == IF seg < Len(e) THEN Len(e) ELSE seg + 1
             O == [s \in DOMAIN f \cup {seg} |-> IF s = seg THEN x ELSE f[s]]
             A == [i \in 1..n |-> IF i = seg + 1 THEN x ELSE IF i <= Len(e) THEN e[i] ELSE Nil]
  <1>1. x # Panic
    BY ValueFacts
  <1>2. ~(c.kind = "arr" /\ seg \notin Nat)
    BY DEF Replaced
  <1>3. CASE c.kind = "obj" \/ (c.kind # "arr" /\ seg \notin Nat)
    <2>1. R = Obj(O)
      BY <1>1, <1>2, <1>3 DEF Replaced
    <2>2. DOMAIN f \subseteq Segs /\ \A s \in DOMAIN f : Value(f[s])
      <3>1. CASE c.kind = "obj"
        <4>1. \A s \in DOMAIN c.f : c.f[s] \in Kids(c)
          BY <3>1 DEF Kids
        <4>2. QED
          BY <3>1, <4>1, NodeFacts, ValueFacts, KidsAreValues
      <3>2. CASE c.kind # "obj"
        BY <3>2
      <3>3. QED
        BY <3>1, <3>2
    <2> HIDE DEF f
    <2>3. DOMAIN O \subseteq Segs /\ \A s \in DOMAIN O : Value(O[s])
      BY <2>2
    <2>4. Value(R)
      <3> HIDE DEF O
      <3>1. QED
        BY <2>1, <2>3, ObjIsValue
    <2>5. R.kind = "obj" /\ R.f = O
      BY <2>1 DEF Obj
    <2>6. Child(R, seg) = x
      BY <2>5 DEF Child
    <2>7. ASSUME NEW t \in Segs, t # seg, Child(c, t) # Missing
          PROVE  Child(R, t) = Child(c, t)
      <3>1. c.kind = "obj" /\ t \in DOMAIN c.f /\ Child(c, t) = c.f[t]
        BY <1>3, <2>7, NodeFacts DEF Child, IsTree
      <3>2. t \in DOMAIN O /\ O[t] = c.f[t]
        BY <2>7, <3>1 DEF f
      <3>3. QED
        BY <2>5, <3>1, <3>2 DEF Child
    <2>8. IsTree(c) => R.kind = c.kind
      BY <1>3, <2>5 DEF IsTree
    <2>9. QED
      BY <2>4, <2>5, <2>6, <2>7, <2>8 DEF IsTree
  <1>4. CASE ~(c.kind = "obj" \/ (c.kind # "arr" /\ seg \notin Nat))
    <2>1. seg \in Nat
      BY <1>2, <1>4
    <2>2. R = Arr(A)
      BY <1>1, <1>2, <1>4 DEF Replaced
    <2>3. Len(e) \in Nat /\ \A i \in 1..Len(e) : Value(e[i])
      <3>1. CASE c.kind = "arr"
        BY <3>1, NodeFacts, Elements
      <3>2. CASE c.kind # "arr"
        BY <3>2
      <3>3. QED
        BY <3>1, <3>2
    <2> HIDE DEF e
    <2>4. n \in Nat /\ seg + 1 \in 1..n /\ 1..Len(e) \subseteq 1..n
      BY <2>1, <2>3
    <2> HIDE DEF n
    <2>5. \A i \in 1..n : Value(A[i])
      BY <2>1, <2>3, <2>4, PlainValues
    <2>6. A = [i \in 1..n |-> A[i]] /\ DOMAIN A = 1..n
      OBVIOUS
    <2>7. A[seg + 1] = x /\ \A i \in 1..Len(e) : i # seg + 1 => A[i] = e[i]
      BY <2>3, <2>4
    <2> HIDE DEF A
    <2>8. Value(R)
      BY <2>2, <2>4, <2>5, <2>6, ArrIsValue
    <2>9. R.kind = "arr" /\ R.e = A
      BY <2>2 DEF Arr
    <2>10. Len(A) = n
      BY <2>4, <2>6
    <2>11. Child(R, seg) = x
      BY <2>1, <2>4, <2>7, <2>9, <2>10 DEF Child
    <2>12. ASSUME NEW t \in Segs, t # seg, Child(c, t) # Missing
           PROVE  Child(R, t) = Child(c, t)
      <3>1. c.kind = "arr" /\ t \in Nat /\ t < Len(c.e) /\ Child(c, t) = c.e[t + 1]
        BY <1>4, <2>12, NodeFacts DEF Child
      <3>2. e = c.e
        BY <3>1 DEF e
      <3>3. t + 1 \in 1..Len(e) /\ t + 1 # seg + 1
        BY <2>1, <2>3, <2>12, <3>1, <3>2
      <3>4. t < n /\ A[t + 1] = c.e[t + 1]
        BY <2>4, <2>7, <3>1, <3>2, <3>3
      <3>5. QED
        BY <2>9, <2>10, <3>1, <3>4 DEF Child
    <2>13. IsTree(c) => R.kind = c.kind
      BY <1>4, <2>9 DEF IsTree
    <2>14. QED
      BY <2>8, <2>9, <2>11, <2>12, <2>13 DEF IsTree
  <1>5. QED
    BY <1>3, <1>4

-----------------------------------------------------------------------------
-----------------------------------------------------------------------------
(* Paths without # are paths; their segments are none.                     *)
LEMMA PlainWays ==
  /\ \A p \in Plain : p \in Ways /\ Len(p) \in Nat /\ DOMAIN p = 1..Len(p)
  /\ \A p \in Plain : p # <<>> => p[1] \in Segs /\ p[1] # Each /\ Tail(p) \in Plain
  <1>1. Segs \subseteq Segs \cup {Each}
    OBVIOUS
  <1>2. \A p \in Plain : p \in Ways /\ Len(p) \in Nat /\ DOMAIN p = 1..Len(p)
    BY <1>1, LenProperties DEF Plain, Ways
  <1>3. \A p \in Plain : p # <<>> => p[1] \in Segs /\ Tail(p) \in Plain
    BY Rest DEF Plain
  <1>4. QED
    BY <1>2, <1>3, NamesAssumption

(* What sjson.Set writes is what gjson.Get finds: v, set at any path in    *)
(* what is missing or a value, is there, and the whole is a value, below a *)
(* path an object or array.                                                *)
THEOREM SetFacts ==
  ASSUME NEW p \in Plain, NEW d, Node(d), NEW v, Value(v), SetIn(d, p, v) # Panic
  PROVE  /\ Value(SetIn(d, p, v))
         /\ p # <<>> => IsTree(SetIn(d, p, v))
         /\ At(SetIn(d, p, v), p) = v
  <1> DEFINE Good(r, c, x) == /\ Value(SetIn(c, r, x))
                              /\ r # <<>> => IsTree(SetIn(c, r, x))
                              /\ At(SetIn(c, r, x), r) = x
             S == {n \in Nat : \A r \in Plain : Len(r) = n =>
                     \A c, x : Node(c) /\ Value(x) /\ SetIn(c, r, x) # Panic => Good(r, c, x)}
  <1>1. 0 \in S
    <2>1. SUFFICES ASSUME NEW r \in Plain, Len(r) = 0, NEW c, NEW x, Node(c), Value(x)
                   PROVE  Good(r, c, x)
      OBVIOUS
    <2>2. r = <<>>
      BY <2>1, EmptySeq DEF Plain
    <2>3. QED
      BY <2>1, <2>2, SetEmpty, AtEmpty
  <1>2. ASSUME NEW n \in S PROVE n + 1 \in S
    <2>1. SUFFICES ASSUME NEW r \in Plain, Len(r) = n + 1, NEW c, NEW x,
                          Node(c), Value(x), SetIn(c, r, x) # Panic
                   PROVE  Good(r, c, x)
      OBVIOUS
    <2>2. r # <<>> /\ r \in Ways /\ r[1] \in Segs /\ r[1] # Each /\ Tail(r) \in Plain
      BY <2>1, PlainWays
    <2>3. Len(Tail(r)) = n
      BY <2>1, <2>2, Rest DEF Plain
    <2> DEFINE b == Child(c, r[1])
               y == SetIn(b, Tail(r), x)
               R == Replaced(c, r[1], y)
    <2>4. SetIn(c, r, x) = R
      BY <2>2, SetStep
    <2>5. y # Panic
      BY <2>1, <2>4 DEF Replaced
    <2>6. Node(b)
      BY <2>1, NodeFacts
    <2>7. Good(Tail(r), b, x)
      BY <2>1, <2>2, <2>3, <2>5, <2>6
    <2> HIDE DEF y, b
    <2>8. Value(R) /\ IsTree(R) /\ Child(R, r[1]) = y
      BY <2>1, <2>2, <2>4, <2>7, ReplacedFacts DEF y
    <2> HIDE DEF R
    <2>9. y # Missing
      BY <2>7, ValueFacts DEF y
    <2>10. At(R, r) = At(y, Tail(r))
      BY <2>2, <2>8, <2>9, AtStep
    <2>11. QED
      BY <2>2, <2>4, <2>7, <2>8, <2>10 DEF y
  <1>3. S \in SUBSET Nat
    OBVIOUS
  <1> HIDE DEF S
  <1>4. Len(p) \in S
    BY <1>1, <1>2, <1>3, SetInduction, PlainWays
  <1> USE DEF S
  <1>5. QED
    BY <1>4

(* Two paths that differ somewhere.                                        *)
Diverge(p, q) == \E k \in 1..Len(p) : k \in 1..Len(q) /\ p[k] # q[k]

(* Diverging paths diverge at once or later.                               *)
LEMMA ApartRest ==
  ASSUME NEW p \in Plain, NEW q \in Plain, Diverge(p, q)
  PROVE  /\ p # <<>> /\ q # <<>>
         /\ p[1] = q[1] => Diverge(Tail(p), Tail(q)) /\ Tail(p) # <<>>
  <1>1. PICK k \in 1..Len(p) : k \in 1..Len(q) /\ p[k] # q[k]
    BY DEF Diverge
  <1>2. p # <<>> /\ q # <<>>
    BY <1>1
  <1>3. ASSUME p[1] = q[1] PROVE Diverge(Tail(p), Tail(q)) /\ Tail(p) # <<>>
    <2>1. k # 1
      BY <1>1, <1>3
    <2>2. /\ Len(Tail(p)) = Len(p) - 1 /\ \A j \in 1..Len(Tail(p)) : Tail(p)[j] = p[j + 1]
          /\ Len(Tail(q)) = Len(q) - 1 /\ \A j \in 1..Len(Tail(q)) : Tail(q)[j] = q[j + 1]
          /\ Len(p) \in Nat /\ Len(q) \in Nat
      BY <1>2, Rest DEF Plain
    <2>3. PICK j \in Nat : j = k - 1
      BY <1>1, <2>1
    <2>4. j \in 1..Len(Tail(p)) /\ j \in 1..Len(Tail(q)) /\ j + 1 = k
      BY <1>1, <2>1, <2>2, <2>3
    <2>5. Tail(p)[j] # Tail(q)[j]
      BY <1>1, <2>2, <2>4
    <2>6. Tail(p) # <<>>
      <3>1. PICK t : t = Tail(p)
        OBVIOUS
      <3>2. j \in 1..Len(t)
        BY <2>4, <3>1
      <3>3. t # <<>>
        BY <3>2
      <3>4. QED
        BY <3>1, <3>3
    <2>7. QED
      BY <2>4, <2>5, <2>6 DEF Diverge
  <1>4. QED
    BY <1>2, <1>3

(* sjson.Set at one path leaves what gjson.Get finds on a path that        *)
(* diverges from it, whatever it had to replace on the way.                *)
THEOREM SetApart ==
  ASSUME NEW p \in Plain, NEW q \in Plain, Diverge(p, q), NEW d, Value(d), NEW v, Value(v),
         SetIn(d, p, v) # Panic, At(d, q) # Missing
  PROVE  At(SetIn(d, p, v), q) = At(d, q)
  <1> DEFINE S == {n \in Nat : \A r, s \in Plain : Len(r) = n /\ Diverge(r, s) =>
                     \A c : Value(c) /\ SetIn(c, r, v) # Panic /\ At(c, s) # Missing =>
                        At(SetIn(c, r, v), s) = At(c, s)}
  <1>1. 0 \in S
    <2>1. \A r \in Plain : \A s : Diverge(r, s) => Len(r) # 0
      BY PlainWays DEF Diverge
    <2>2. QED
      BY <2>1
  <1>2. ASSUME NEW n \in S PROVE n + 1 \in S
    <2>1. SUFFICES ASSUME NEW r \in Plain, NEW s \in Plain, Len(r) = n + 1, Diverge(r, s), NEW c,
                          Value(c), SetIn(c, r, v) # Panic, At(c, s) # Missing
                   PROVE  At(SetIn(c, r, v), s) = At(c, s)
      OBVIOUS
    <2>2. r # <<>> /\ s # <<>> /\ (r[1] = s[1] => Diverge(Tail(r), Tail(s)) /\ Tail(r) # <<>>)
      BY <2>1, ApartRest
    <2>3. /\ r \in Ways /\ r[1] \in Segs /\ Tail(r) \in Plain /\ Len(Tail(r)) = n
          /\ s \in Ways /\ s[1] \in Segs /\ s[1] # Each /\ Tail(s) \in Plain
      BY <2>1, <2>2, PlainWays, Rest DEF Plain
    <2> DEFINE b == Child(c, r[1])
               y == SetIn(b, Tail(r), v)
               R == Replaced(c, r[1], y)
    <2>4. SetIn(c, r, v) = R
      BY <2>2, <2>3, SetStep
    <2>5. y # Panic
      BY <2>1, <2>4 DEF Replaced
    <2>6. Node(c) /\ Node(b)
      BY <2>1, NodeFacts DEF Node
    <2>7. Value(y)
      BY <2>3, <2>5, <2>6, SetFacts
    <2> HIDE DEF y, b
    <2>8. /\ Value(R) /\ Child(R, r[1]) = y
          /\ \A t \in Segs : t # r[1] /\ Child(c, t) # Missing => Child(R, t) = Child(c, t)
      BY <2>1, <2>3, <2>4, <2>6, <2>7, ReplacedFacts
    <2> HIDE DEF R
    <2>9. Child(c, s[1]) # Missing /\ At(c, s) = At(Child(c, s[1]), Tail(s))
      BY <2>1, <2>2, <2>3, AtStep
    <2>10. CASE r[1] = s[1]
      <3>1. Value(b)
        BY <2>6, <2>9, <2>10 DEF Node, b
      <3>2. At(b, Tail(s)) # Missing
        BY <2>1, <2>9, <2>10 DEF b
      <3>3. At(y, Tail(s)) = At(b, Tail(s))
        BY <2>2, <2>3, <2>5, <2>10, <3>1, <3>2 DEF y
      <3>4. At(R, s) = At(y, Tail(s))
        <4>1. Child(R, s[1]) = y /\ y # Missing
          BY <2>7, <2>8, <2>10, ValueFacts
        <4>2. Value(R) /\ Child(R, s[1]) # Missing
          BY <2>8, <4>1
        <4>3. At(R, s) = At(Child(R, s[1]), Tail(s))
          BY <2>2, <2>3, <4>2, AtStep
        <4>4. QED
          BY <4>1, <4>3
      <3>5. QED
        BY <2>4, <2>9, <2>10, <3>3, <3>4 DEF b
    <2>11. CASE r[1] # s[1]
      <3>1. Child(R, s[1]) = Child(c, s[1])
        BY <2>3, <2>8, <2>9, <2>11
      <3>2. At(R, s) = At(Child(R, s[1]), Tail(s))
        BY <2>2, <2>3, <2>8, <2>9, <3>1, AtStep
      <3>3. QED
        BY <2>4, <2>9, <3>1, <3>2
    <2>12. QED
      BY <2>10, <2>11
  <1>3. S \in SUBSET Nat
    OBVIOUS
  <1> HIDE DEF S
  <1>4. Len(p) \in S
    BY <1>1, <1>2, <1>3, SetInduction, PlainWays
  <1> USE DEF S
  <1>5. QED
    BY <1>4

-----------------------------------------------------------------------------
-----------------------------------------------------------------------------
(* A list of results: each is a value, or is missing.                      *)
Results(list, n) == list = [i \in 1..n |-> list[i]] /\ \A i \in 1..n : Node(list[i])

(* Of a list of results the values stay, in their order.                   *)
LEMMA FoundFacts ==
  ASSUME NEW n \in Nat, NEW list, Results(list, n)
  PROVE  LET e == FoundIn(list)
         IN  /\ Value(Arr(e)) /\ Len(e) \in Nat
             /\ \A m \in 0..n : (\A i \in 1..m : list[i] # Missing) =>
                   m <= Len(e) /\ \A i \in 1..m : e[i] = list[i]
  <1> DEFINE V == {list[i] : i \in {j \in 1..n : Found(list[j])}}
             F(k) == FoundUpTo(list)[k]
             All(m) == \A i \in 1..m : list[i] # Missing
             Good(k) == /\ F(k) \in Seq(V) /\ Len(F(k)) <= k
                        /\ \A m \in 0..k : All(m) =>
                              m <= Len(F(k)) /\ \A i \in 1..m : F(k)[i] = list[i]
             S == {k \in Nat : k \in 0..n => Good(k)}
  <1>1. Len(list) = n /\ \A i \in 1..n : Node(list[i])
    BY DEF Results
  <1>2. F(0) = <<>> /\ \A k \in 0..n : k + 1 \in 0..n =>
           F(k + 1) = IF Found(list[k + 1]) THEN Append(F(k), list[k + 1]) ELSE F(k)
    BY <1>1, FoundUnfold
  <1>3. \A i \in 1..n : Found(list[i]) <=> list[i] # Missing
    BY <1>1, ValueFacts DEF Node, Found
  <1> HIDE DEF F
  <1>4. \A i \in 1..n : Found(list[i]) => list[i] \in V
    OBVIOUS
  <1>5. \A x \in V : Value(x)
    BY <1>1, <1>3 DEF Node
  <1> HIDE DEF V
  <1>6. 0 \in S
    <2>1. <<>> \in Seq(V) /\ Len(<<>>) = 0
      OBVIOUS
    <2>2. \A m \in 0..0 : m = 0 /\ 1..m = {}
      OBVIOUS
    <2>3. F(0) \in Seq(V) /\ Len(F(0)) = 0
      BY <1>2, <2>1
    <2>4. Good(0)
      BY <2>2, <2>3
    <2>5. QED
      BY <2>4
  <1>7. ASSUME NEW k \in S PROVE k + 1 \in S
    <2>1. SUFFICES ASSUME k + 1 \in 0..n PROVE Good(k + 1)
      OBVIOUS
    <2>2. k \in 0..n /\ k + 1 \in 1..n /\ Good(k)
      BY <2>1
    <2> HIDE DEF S
    <2>3. CASE Found(list[k + 1])
      <3>1. F(k + 1) = Append(F(k), list[k + 1]) /\ list[k + 1] \in V
        BY <1>2, <1>4, <2>1, <2>2, <2>3
      <3>2. F(k + 1) \in Seq(V) /\ Len(F(k + 1)) = Len(F(k)) + 1
            /\ F(k + 1)[Len(F(k)) + 1] = list[k + 1]
            /\ \A i \in 1..Len(F(k)) : F(k + 1)[i] = F(k)[i]
        BY <2>2, <3>1, AppendProperties
      <3>3. Len(F(k)) \in Nat
        BY <2>2, LenProperties
      <3>4. ASSUME NEW m \in 0..(k + 1), All(m)
            PROVE  m <= Len(F(k + 1)) /\ \A i \in 1..m : F(k + 1)[i] = list[i]
        <4>1. CASE m \in 0..k
          BY <2>2, <3>2, <3>3, <3>4, <4>1
        <4>2. CASE m = k + 1
          <5>1. All(k)
            BY <2>2, <3>4, <4>2
          <5>2. k <= Len(F(k)) /\ \A i \in 1..k : F(k)[i] = list[i]
            BY <2>2, <5>1
          <5>3. Len(F(k)) = k
            BY <2>2, <3>3, <5>2
          <5>4. \A i \in 1..m : i \in 1..k \/ i = k + 1
            BY <2>2, <4>2
          <5>5. QED
            BY <3>2, <4>2, <5>2, <5>3, <5>4
        <4>3. QED
          BY <2>2, <4>1, <4>2
      <3>5. Len(F(k + 1)) <= k + 1
        BY <2>2, <3>2, <3>3
      <3> HIDE DEF All
      <3>6. QED
        BY <3>2, <3>4, <3>5
    <2>4. CASE ~Found(list[k + 1])
      <3>1. F(k + 1) = F(k) /\ list[k + 1] = Missing
        BY <1>2, <1>3, <2>1, <2>2, <2>4
      <3>2. ASSUME NEW m \in 0..(k + 1), All(m) PROVE m \in 0..k
        BY <2>2, <3>1, <3>2
      <3>3. Len(F(k)) \in Nat
        BY <2>2, LenProperties
      <3>4. Len(F(k + 1)) <= k + 1
        BY <2>2, <3>1, <3>3
      <3> HIDE DEF All
      <3>5. QED
        BY <2>2, <3>1, <3>2, <3>4
    <2>5. QED
      BY <2>3, <2>4
  <1>8. S \in SUBSET Nat
    OBVIOUS
  <1> HIDE DEF S
  <1>9. n \in S
    BY <1>6, <1>7, <1>8, SetInduction
  <1>10. Good(n)
    BY <1>9 DEF S
  <1>11. F(n) = FoundIn(list)
    BY <1>1 DEF F, FoundIn
  <1>12. Value(Arr(F(n))) /\ Len(F(n)) \in Nat
    <2>1. Len(F(n)) \in Nat /\ F(n) = [i \in 1..Len(F(n)) |-> F(n)[i]]
          /\ \A i \in 1..Len(F(n)) : F(n)[i] \in V
      BY <1>10, LenProperties
    <2> HIDE DEF Good
    <2>2. QED
      BY <1>5, <2>1, ArrIsValue
  <1> HIDE DEF F
  <1>13. QED
    BY <1>10, <1>11, <1>12

(* What gjson.Get finds in a value is a value.                             *)
LEMMA AtType ==
  ASSUME NEW p \in Ways, NEW d, Value(d)
  PROVE  Node(At(d, p))
  <1> DEFINE S == {n \in Nat : \A r \in Ways : Len(r) = n => \A c : Value(c) => Node(At(c, r))}
  <1>1. 0 \in S
    <2>1. \A r \in Ways : Len(r) = 0 => r = <<>>
      BY EmptySeq DEF Ways
    <2>2. QED
      BY <2>1, AtEmpty DEF Node
  <1>2. ASSUME NEW n \in S PROVE n + 1 \in S
    <2>1. SUFFICES ASSUME NEW r \in Ways, Len(r) = n + 1, NEW c, Value(c) PROVE Node(At(c, r))
      OBVIOUS
    <2>2. r # <<>>
      BY <2>1
    <2>3. Tail(r) \in Ways /\ Len(Tail(r)) = n
      BY <2>1, <2>2, Rest DEF Ways
    <2>4. CASE r[1] # Each
      <3>1. Child(c, r[1]) # Missing => Value(Child(c, r[1]))
        BY <2>1, ChildFacts
      <3>2. Child(c, r[1]) # Missing => Node(At(Child(c, r[1]), Tail(r)))
        BY <2>3, <3>1
      <3>3. QED
        BY <2>1, <2>2, <2>4, <3>2, AtStep DEF Node
    <2>5. CASE r[1] = Each /\ c.kind # "arr"
      BY <2>1, <2>2, <2>5, AtStep DEF Node
    <2>6. CASE r[1] = Each /\ c.kind = "arr" /\ Tail(r) = <<>>
      <3>1. At(c, r) = Num(Len(c.e))
        BY <2>1, <2>2, <2>6, AtStep
      <3>2. Len(c.e) \in Nat
        BY <2>1, <2>6, Elements
      <3>3. QED
        BY <3>1, <3>2, PlainValues DEF Node
    <2>7. CASE r[1] = Each /\ c.kind = "arr" /\ Tail(r) # <<>>
      <3> DEFINE list == [i \in 1..Len(c.e) |-> At(c.e[i], Tail(r))]
      <3>1. At(c, r) = Arr(FoundIn(list))
        BY <2>1, <2>2, <2>7, AtStep
      <3>2. Len(c.e) \in Nat /\ \A i \in 1..Len(c.e) : Node(At(c.e[i], Tail(r)))
        BY <2>1, <2>3, <2>7, Elements
      <3>3. Results(list, Len(c.e))
        BY <3>2 DEF Results
      <3> HIDE DEF list
      <3>4. Value(Arr(FoundIn(list)))
        BY <3>2, <3>3, FoundFacts
      <3>5. QED
        BY <3>1, <3>4 DEF Node
    <2>8. QED
      BY <2>4, <2>5, <2>6, <2>7
  <1>3. S \in SUBSET Nat
    OBVIOUS
  <1> HIDE DEF S
  <1>4. Len(p) \in S
    BY <1>1, <1>2, <1>3, SetInduction, LenProperties DEF Ways
  <1> USE DEF S
  <1>5. QED
    BY <1>4

-----------------------------------------------------------------------------
-----------------------------------------------------------------------------
(* A set of numbers up to a bound has a largest.                           *)
LEMMA LargestFacts ==
  ASSUME NEW N \in Nat, NEW T, T \subseteq 1..N, T # {}
  PROVE  Largest(T) \in T /\ \A m \in T : m <= Largest(T)
  <1> DEFINE Has(U) == \E n \in U : \A m \in U : m <= n
             S == {k \in Nat : \A U \in SUBSET (1..k) : U # {} => Has(U)}
  <1>1. 0 \in S
    <2>1. 1..0 = {}
      OBVIOUS
    <2>2. \A U \in SUBSET (1..0) : U = {}
      BY <2>1
    <2> HIDE DEF Has
    <2>3. QED
      BY <2>2
  <1>2. ASSUME NEW k \in S PROVE k + 1 \in S
    <2>1. SUFFICES ASSUME NEW U \in SUBSET (1..(k + 1)), U # {} PROVE Has(U)
      OBVIOUS
    <2>2. CASE k + 1 \in U
      BY <2>2
    <2>3. CASE k + 1 \notin U
      <3>1. U \in SUBSET (1..k)
        BY <2>3
      <3>2. QED
        BY <2>1, <3>1
    <2>4. QED
      BY <2>2, <2>3
  <1>3. S \in SUBSET Nat
    OBVIOUS
  <1> HIDE DEF S
  <1>4. N \in S
    BY <1>1, <1>2, <1>3, SetInduction
  <1>5. Has(T)
    BY <1>4 DEF S
  <1>6. QED
    BY <1>5 DEF Largest

(* The beginnings and the ends of a path, and of the rest of it.           *)
LEMMA Parts ==
  ASSUME NEW p \in Ways, p # <<>>, NEW n \in 1..Len(p)
  PROVE  /\ SubSeq(p, 1, n) \in Ways /\ SubSeq(p, 1, n) # <<>>
         /\ SubSeq(p, 1, n)[1] = p[1] /\ Tail(SubSeq(p, 1, n)) = SubSeq(Tail(p), 1, n - 1)
         /\ SubSeq(p, n + 1, Len(p)) \in Ways /\ Len(SubSeq(p, n + 1, Len(p))) = Len(p) - n
         /\ SubSeq(p, n + 1, Len(p)) = SubSeq(Tail(p), n, Len(Tail(p)))
  <1> DEFINE X == Segs \cup {Each}
             q == Tail(p)
  <1>1. p \in Seq(X) /\ Len(p) \in Nat /\ \A i \in 1..Len(p) : p[i] \in X
    BY LenProperties, ElementOfSeq DEF Ways
  <1>2. q \in Seq(X) /\ Len(q) = Len(p) - 1 /\ \A i \in 1..Len(q) : q[i] = p[i + 1] /\ q[i] \in X
    BY Rest, ElementOfSeq DEF Ways
  <1> HIDE DEF X, q
  <1>3. /\ SubSeq(p, 1, n) \in Seq(X) /\ Len(SubSeq(p, 1, n)) = n
        /\ \A i \in 1..n : SubSeq(p, 1, n)[i] = p[i]
    <2>1. /\ SubSeq(p, 1, n) \in Seq(X) /\ Len(SubSeq(p, 1, n)) = (IF 1 <= n THEN n - 1 + 1 ELSE 0)
          /\ \A i \in 1..(n - 1 + 1) : SubSeq(p, 1, n)[i] = p[1 + i - 1]
      BY <1>1, SubSeqProperties
    <2>2. n - 1 + 1 = n /\ 1 <= n /\ \A i \in 1..n : 1 + i - 1 = i
      BY <1>1
    <2>3. QED
      BY <2>1, <2>2
  <1>4. SubSeq(p, 1, n) # <<>> /\ SubSeq(p, 1, n)[1] = p[1]
    BY <1>3
  <1>5. /\ SubSeq(p, n + 1, Len(p)) \in Seq(X) /\ Len(SubSeq(p, n + 1, Len(p))) = Len(p) - n
        /\ \A i \in 1..(Len(p) - n) : SubSeq(p, n + 1, Len(p))[i] = p[n + i]
    <2>1. \A i \in (n + 1)..Len(p) : p[i] \in X
      BY <1>1
    <2>2. /\ SubSeq(p, n + 1, Len(p)) \in Seq(X)
          /\ Len(SubSeq(p, n + 1, Len(p))) = (IF n + 1 <= Len(p) THEN Len(p) - (n + 1) + 1 ELSE 0)
          /\ \A i \in 1..(Len(p) - (n + 1) + 1) : SubSeq(p, n + 1, Len(p))[i] = p[(n + 1) + i - 1]
      BY <1>1, <2>1, SubSeqProperties
    <2>3. Len(p) - (n + 1) + 1 = Len(p) - n /\ (~(n + 1 <= Len(p)) => Len(p) - n = 0)
          /\ \A i \in 1..(Len(p) - n) : (n + 1) + i - 1 = n + i
      BY <1>1
    <2>4. QED
      BY <2>2, <2>3
  <1>6. /\ SubSeq(q, n, Len(q)) \in Seq(X) /\ Len(SubSeq(q, n, Len(q))) = Len(p) - n
        /\ \A i \in 1..(Len(p) - n) : SubSeq(q, n, Len(q))[i] = p[n + i]
    <2>1. \A i \in n..Len(q) : q[i] \in X
      BY <1>1, <1>2
    <2>2. Len(q) \in Int
      BY <1>1, <1>2
    <2>3. /\ SubSeq(q, n, Len(q)) \in Seq(X)
          /\ Len(SubSeq(q, n, Len(q))) = (IF n <= Len(q) THEN Len(q) - n + 1 ELSE 0)
          /\ \A i \in 1..(Len(q) - n + 1) : SubSeq(q, n, Len(q))[i] = q[n + i - 1]
      BY <2>1, <2>2, SubSeqProperties
    <2>4. Len(q) - n + 1 = Len(p) - n /\ (~(n <= Len(q)) => Len(p) - n = 0)
          /\ \A i \in 1..(Len(p) - n) : n + i - 1 \in 1..Len(q) /\ (n + i - 1) + 1 = n + i
      BY <1>1, <1>2
    <2>5. QED
      BY <1>2, <2>3, <2>4
  <1>7. SubSeq(p, n + 1, Len(p)) = SubSeq(q, n, Len(q))
    <2>1. PICK a : a = SubSeq(p, n + 1, Len(p))
      OBVIOUS
    <2>2. PICK b : b = SubSeq(q, n, Len(q))
      OBVIOUS
    <2>3. a \in Seq(X) /\ b \in Seq(X) /\ Len(a) = Len(b) /\ \A i \in 1..Len(a) : a[i] = b[i]
      BY <1>5, <1>6, <2>1, <2>2
    <2>4. a = b
      BY <2>3, SeqEqual
    <2>5. QED
      BY <2>1, <2>2, <2>4
  <1>8. Tail(SubSeq(p, 1, n)) = SubSeq(q, 1, n - 1)
    <2>1. PICK a : a = SubSeq(p, 1, n)
      OBVIOUS
    <2>2. a \in Seq(X) /\ a # <<>> /\ Len(a) = n /\ \A i \in 1..n : a[i] = p[i]
      BY <1>3, <1>4, <2>1
    <2>3. PICK b : b = Tail(a)
      OBVIOUS
    <2>4. b \in Seq(X) /\ Len(b) = n - 1 /\ \A i \in 1..(n - 1) : b[i] = p[i + 1]
      <3>1. b \in Seq(X) /\ Len(b) = n - 1 /\ \A i \in 1..Len(b) : b[i] = a[i + 1]
        BY <2>2, <2>3, Rest
      <3>2. QED
        BY <2>2, <3>1
    <2>5. PICK c : c = SubSeq(q, 1, n - 1)
      OBVIOUS
    <2>6. c \in Seq(X) /\ Len(c) = n - 1 /\ \A i \in 1..(n - 1) : c[i] = p[i + 1]
      <3>1. \A i \in 1..(n - 1) : q[i] \in X /\ q[i] = p[i + 1]
        BY <1>1, <1>2
      <3>2. n - 1 \in Int
        OBVIOUS
      <3>3. /\ c \in Seq(X) /\ Len(c) = (IF 1 <= n - 1 THEN (n - 1) - 1 + 1 ELSE 0)
            /\ \A i \in 1..((n - 1) - 1 + 1) : c[i] = q[1 + i - 1]
        BY <2>5, <3>1, <3>2, SubSeqProperties
      <3>4. (n - 1) - 1 + 1 = n - 1 /\ (~(1 <= n - 1) => n - 1 = 0) /\ \A i \in 1..(n - 1) : 1 + i - 1 = i
        OBVIOUS
      <3>5. QED
        BY <3>1, <3>3, <3>4
    <2>7. b = c
      BY <2>4, <2>6, SeqEqual
    <2>8. QED
      BY <2>1, <2>3, <2>5, <2>7
  <1>9. QED
    BY <1>3, <1>4, <1>5, <1>7, <1>8 DEF Ways, X, q

-----------------------------------------------------------------------------
-----------------------------------------------------------------------------
(* What GetValueFromJson is at in a turn.                                  *)
Turn(q) == q = [val |-> q.val, path |-> q.path] /\ q.path \in Ways
Final(q) == Turns(q, Len(q.path))[Len(q.path)].val

(* The length of a path.                                                   *)
LEMMA PathsAreWays == \A p \in Ways : Len(p) \in Nat /\ (Len(p) = 0 <=> p = <<>>)
  BY LenProperties, EmptySeq DEF Ways

(* A turn leaves less of the path to look up.                              *)
LEMMA DeeperShrinks ==
  ASSUME NEW q, Turn(q)
  PROVE  /\ Turn(Deeper(q))
         /\ q.path = <<>> => Deeper(q) = q
         /\ q.path # <<>> => Len(Deeper(q).path) < Len(q.path)
  <1> DEFINE d == Unwrapped(q.val)
             there == {n \in 1..Len(q.path) : At(d, SubSeq(q.path, 1, n)) # Missing}
             n == Largest(there)
  <1>1. q.path \in Ways /\ Len(q.path) \in Nat
    BY PathsAreWays DEF Turn
  <1>2. \A v : Turn([val |-> v, path |-> <<>>]) /\ Len(<<>>) = 0
    BY DEF Turn, Ways
  <1>3. CASE q.path = <<>>
    BY <1>3 DEF Deeper
  <1>4. CASE q.path # <<>> /\ q.val.kind = "json" /\ there # {}
    <2>1. n \in 1..Len(q.path)
      <3> HIDE DEF n
      <3>1. there \subseteq 1..Len(q.path)
        OBVIOUS
      <3> HIDE DEF there
      <3>2. QED
        BY <1>1, <1>4, <3>1, LargestFacts DEF n
    <2>2. Deeper(q) = [val |-> At(d, SubSeq(q.path, 1, n)),
                       path |-> SubSeq(q.path, n + 1, Len(q.path))]
      BY <1>4 DEF Deeper
    <2> HIDE DEF n
    <2>3. /\ SubSeq(q.path, n + 1, Len(q.path)) \in Ways
          /\ Len(SubSeq(q.path, n + 1, Len(q.path))) = Len(q.path) - n
      BY <1>1, <1>4, <2>1, Parts
    <2>4. QED
      BY <1>1, <1>4, <2>1, <2>2, <2>3 DEF Turn
  <1>5. CASE q.path # <<>> /\ ~(q.val.kind = "json" /\ there # {})
    <2>1. Deeper(q) \in {[val |-> Panic, path |-> <<>>], [val |-> Missing, path |-> <<>>]}
      BY <1>5 DEF Deeper
    <2>2. Deeper(q).path = <<>> /\ Turn(Deeper(q))
      BY <1>2, <2>1
    <2>3. Len(q.path) # 0
      BY <1>1, <1>5, PathsAreWays
    <2>4. QED
      BY <1>1, <1>2, <1>5, <2>2, <2>3
  <1>6. QED
    BY <1>3, <1>4, <1>5

(* Turns from where one turn leads.                                        *)
LEMMA TurnsShift ==
  ASSUME NEW q, NEW n \in Nat
  PROVE  \A k \in 0..n : Turns(q, n + 1)[k + 1] = Turns(Deeper(q), n)[k]
  <1> DEFINE S == {k \in Nat : k \in 0..n => Turns(q, n + 1)[k + 1] = Turns(Deeper(q), n)[k]}
  <1>1. n + 1 \in Nat
    OBVIOUS
  <1>2. 0 \in S
    <2>1. Turns(q, n + 1)[0] = q /\ Turns(q, n + 1)[0 + 1] = Deeper(Turns(q, n + 1)[0])
      BY <1>1, TurnsUnfold
    <2>2. Turns(Deeper(q), n)[0] = Deeper(q)
      BY TurnsUnfold
    <2>3. QED
      BY <2>1, <2>2
  <1>3. ASSUME NEW k \in S PROVE k + 1 \in S
    <2>1. SUFFICES ASSUME k + 1 \in 0..n
                   PROVE  Turns(q, n + 1)[(k + 1) + 1] = Turns(Deeper(q), n)[k + 1]
      OBVIOUS
    <2>2. k \in 0..n /\ k + 1 \in 0..(n + 1) /\ (k + 1) + 1 \in 0..(n + 1)
      BY <2>1
    <2>3. Turns(q, n + 1)[(k + 1) + 1] = Deeper(Turns(q, n + 1)[k + 1])
      BY <1>1, <2>2, TurnsUnfold
    <2>4. Turns(Deeper(q), n)[k + 1] = Deeper(Turns(Deeper(q), n)[k])
      BY <2>1, <2>2, TurnsUnfold
    <2>5. QED
      BY <2>2, <2>3, <2>4
  <1>4. S \in SUBSET Nat
    OBVIOUS
  <1> HIDE DEF S
  <1>5. S = Nat
    BY <1>2, <1>3, <1>4, SetInduction
  <1> USE DEF S
  <1>6. QED
    BY <1>5

(* Once the path is looked up, further turns change nothing.               *)
LEMMA TurnsSettle ==
  ASSUME NEW n \in Nat, NEW q, Turn(q), Len(q.path) <= n
  PROVE  Turns(q, n)[n].val = Final(q)
  <1> DEFINE Settled(r, m) == Turn(r) /\ Len(r.path) <= m => Turns(r, m)[m].val = Final(r)
             S == {k \in Nat : \A m \in 0..k : \A r : Settled(r, m)}
  <1>1. \A r : Turn(r) => Len(r.path) \in Nat
    BY PathsAreWays DEF Turn
  <1>2. 0 \in S
    <2>1. \A r : Settled(r, 0)
      <3>1. \A r : Turn(r) /\ Len(r.path) <= 0 => Len(r.path) = 0
        BY <1>1
      <3>2. QED
        BY <3>1 DEF Final
    <2>2. \A m \in 0..0 : m = 0
      OBVIOUS
    <2> HIDE DEF Settled
    <2>3. QED
      BY <2>1, <2>2
  <1>3. ASSUME NEW k \in S PROVE k + 1 \in S
    <2>1. ASSUME NEW r, Turn(r), Len(r.path) <= k + 1
          PROVE  Turns(r, k + 1)[k + 1].val = Final(r)
      <3>1. Turns(r, k + 1)[k + 1] = Turns(Deeper(r), k)[k]
        BY TurnsShift
      <3>2. CASE r.path = <<>>
        <4>1. Deeper(r) = r /\ Len(r.path) = 0
          BY <2>1, <3>2, DeeperShrinks
        <4>2. Settled(r, k)
          OBVIOUS
        <4>3. QED
          BY <2>1, <3>1, <4>1, <4>2
      <3>3. CASE r.path # <<>>
        <4>1. PICK l \in Nat : l + 1 = Len(r.path)
          <5>1. Len(r.path) \in Nat /\ Len(r.path) # 0
            BY <2>1, <3>3, PathsAreWays DEF Turn
          <5>2. Len(r.path) - 1 \in Nat /\ (Len(r.path) - 1) + 1 = Len(r.path)
            BY <5>1
          <5>3. QED
            BY <5>2
        <4>2. Turn(Deeper(r)) /\ Len(Deeper(r).path) <= l /\ l <= k
          BY <1>1, <2>1, <3>3, <4>1, DeeperShrinks
        <4>3. Settled(Deeper(r), l) /\ Settled(Deeper(r), k)
          BY <4>2
        <4>4. Turns(Deeper(r), l)[l].val = Turns(Deeper(r), k)[k].val
          BY <1>1, <4>2, <4>3
        <4>5. Turns(r, l + 1)[l + 1] = Turns(Deeper(r), l)[l]
          BY TurnsShift
        <4>6. Final(r) = Turns(r, l + 1)[l + 1].val
          BY <4>1 DEF Final
        <4>7. QED
          BY <3>1, <4>4, <4>5, <4>6
      <3>4. QED
        BY <3>2, <3>3
    <2>2. \A m \in 0..(k + 1) : m \in 0..k \/ m = k + 1
      OBVIOUS
    <2>3. \A m \in 0..k : \A r : Settled(r, m)
      OBVIOUS
    <2>4. \A r : Settled(r, k + 1)
      BY <2>1
    <2> HIDE DEF Settled
    <2>5. \A m \in 0..(k + 1) : \A r : Settled(r, m)
      BY <2>2, <2>3, <2>4
    <2>6. QED
      BY <2>5
  <1>4. S \in SUBSET Nat
    OBVIOUS
  <1> HIDE DEF S
  <1>5. n \in S
    BY <1>2, <1>3, <1>4, SetInduction
  <1>6. \A m \in 0..n : \A r : Settled(r, m)
    BY <1>5 DEF S
  <1>7. n \in 0..n
    OBVIOUS
  <1>8. QED
    BY <1>6, <1>7

(* What a turn leaves to look up has the same answer.                      *)
LEMMA FinalStep ==
  ASSUME NEW q, Turn(q), q.path # <<>>
  PROVE  Final(q) = Final(Deeper(q))
  <1>1. Len(q.path) \in Nat /\ Len(q.path) # 0
    BY PathsAreWays DEF Turn
  <1>2. PICK n \in Nat : n + 1 = Len(q.path)
    <2>1. Len(q.path) - 1 \in Nat /\ (Len(q.path) - 1) + 1 = Len(q.path)
      BY <1>1
    <2>2. QED
      BY <2>1
  <1>3. Turn(Deeper(q)) /\ Len(Deeper(q).path) \in Nat /\ Len(Deeper(q).path) <= n
    <2>1. Turn(Deeper(q)) /\ Len(Deeper(q).path) < Len(q.path)
      BY DeeperShrinks
    <2>2. Len(Deeper(q).path) \in Nat
      BY <2>1, PathsAreWays DEF Turn
    <2>3. QED
      BY <1>2, <2>1, <2>2
  <1>4. Turns(Deeper(q), n)[n].val = Final(Deeper(q))
    BY <1>3, TurnsSettle
  <1>5. Turns(q, n + 1)[n + 1] = Turns(Deeper(q), n)[n]
    BY TurnsShift
  <1>6. QED
    BY <1>2, <1>4, <1>5 DEF Final

(* With no path left a value is what is found.                             *)
LEMMA FinalEmpty ==
  ASSUME NEW v
  PROVE  Final([val |-> v, path |-> <<>>]) = v
  <1>1. Len(<<>>) = 0
    OBVIOUS
  <1>2. Turns([val |-> v, path |-> <<>>], 0)[0] = [val |-> v, path |-> <<>>]
    BY TurnsUnfold
  <1>3. QED
    BY <1>1, <1>2 DEF Final

-----------------------------------------------------------------------------
-----------------------------------------------------------------------------
(* What getValue reads at a path below a value, which is looked up in as   *)
(* JSON text.                                                              *)
Wrapped(x) == IF IsString(x) THEN x ELSE Json(x)
Reads(x, r) == IF r = <<>> THEN x ELSE GetValueFromJson(Wrapped(x), r)

(* Reading below a value is turning from it until the path ends.           *)
LEMMA ReadsIsFinal ==
  ASSUME NEW x, NEW r, r # <<>>
  PROVE  Reads(x, r) = Final([val |-> Wrapped(x), path |-> r])
  BY DEF Reads, Final, GetValueFromJson

(* Nothing is found below what is no object or array.                      *)
LEMMA AtNoTree ==
  ASSUME NEW d, Value(d), ~IsTree(d), NEW p \in Ways, p # <<>>
  PROVE  At(d, p) = Missing
  <1>1. d.kind # "arr" /\ Child(d, p[1]) = Missing
    BY ChildFacts DEF IsTree
  <1>2. QED
    BY <1>1, AtStep

(* What can be made out of an array in a text inside a text.               *)
LEMMA LegibleFacts ==
  ASSUME NEW v, Value(v), v.kind = "arr"
  PROVE  Value(Arr(Legible(v.e)))
  <1> DEFINE e == v.e
             upTo == {n \in 1..Len(e) : \A i \in 1..(n - 1) : ~Quoted(e[i])}
             n == IF upTo = {} THEN 0 ELSE Largest(upTo)
             x(i) == IF Quoted(e[i]) THEN Garbled ELSE e[i]
             f == [i \in 1..n |-> x(i)]
  <1>1. Legible(e) = f
    BY DEF Legible
  <1>2. Len(e) \in Nat /\ \A i \in 1..Len(e) : Value(e[i])
    BY Elements
  <1> HIDE DEF e
  <1>3. n \in 0..Len(e)
    <2>1. upTo \subseteq 1..Len(e)
      OBVIOUS
    <2> HIDE DEF upTo
    <2>2. CASE upTo = {}
      BY <1>2, <2>2
    <2>3. CASE upTo # {}
      <3>1. Largest(upTo) \in upTo
        BY <1>2, <2>1, <2>3, LargestFacts
      <3>2. n = Largest(upTo)
        BY <2>3 DEF n
      <3> HIDE DEF n
      <3>3. n \in 1..Len(e)
        BY <2>1, <3>1, <3>2
      <3>4. 1..Len(e) \subseteq 0..Len(e)
        BY <1>2
      <3>5. QED
        BY <3>3, <3>4
    <2>4. QED
      BY <2>2, <2>3
  <1> HIDE DEF n
  <1>4. n \in Nat /\ \A i \in 1..n : i \in 1..Len(e)
    BY <1>2, <1>3
  <1>5. \A i \in 1..n : Value(x(i))
    BY <1>2, <1>4, PlainValues
  <1> HIDE DEF x
  <1>6. f = [i \in 1..n |-> f[i]] /\ \A i \in 1..n : f[i] = x(i)
    OBVIOUS
  <1> HIDE DEF f
  <1>7. \A i \in 1..n : Value(f[i])
    BY <1>5, <1>6
  <1>8. Value(Arr(f))
    BY <1>4, <1>6, <1>7, ArrIsValue
  <1>9. QED
    BY <1>1, <1>8 DEF e

(* Where gjson begins to look is a value.                                  *)
LEMMA EnteredFacts ==
  ASSUME NEW d, Value(d)
  PROVE  Value(Entered(d))
  <1> DEFINE arrays == ArraysInside(d)
             x == CHOOSE y \in arrays : TRUE
  <1>1. \A y \in arrays : Value(y) /\ y.kind = "arr"
    BY LevelsOfValue, DepthAssumption DEF ArraysInside
  <1>2. CASE d.kind = "json" /\ arrays # {}
    <2>1. x \in arrays
      BY <1>2
    <2>2. Entered(d) = Arr(Legible(x.e))
      BY <1>2 DEF Entered
    <2> HIDE DEF x, arrays
    <2>3. QED
      BY <1>1, <2>1, <2>2, LegibleFacts
  <1>3. CASE ~(d.kind = "json" /\ arrays # {})
    BY <1>3 DEF Entered
  <1>4. QED
    BY <1>2, <1>3

(* What is looked into for a value, and how it is found.                   *)
LEMMA UnwrappedFacts ==
  ASSUME NEW x, Value(x)
  PROVE  /\ Value(Unwrapped(x))
         /\ x.kind \notin {"text", "empty"} =>
               Wrapped(x).kind = "json" /\ Unwrapped(Wrapped(x)) = Unwrapped(x)
         /\ x.kind \in {"text", "empty"} => Wrapped(x) = x /\ Unwrapped(x) = x
         /\ ~IsString(x) => Wrapped(x) = Json(x) /\ Unwrapped(x) = x /\ Unwrapped(Json(x)) = x
  <1>1. CASE x.kind = "json"
    <2>1. x.d \in Kids(x) /\ Unwrapped(x) = Entered(x.d) /\ Wrapped(x) = x /\ IsString(x)
      BY <1>1 DEF Unwrapped, Kids, Wrapped, IsString
    <2>2. Value(x.d)
      BY <2>1, KidsAreValues
    <2>3. QED
      BY <1>1, <2>1, <2>2, EnteredFacts
  <1>2. CASE x.kind \in {"text", "empty"}
    BY <1>2 DEF Unwrapped, Wrapped, IsString
  <1>3. CASE ~IsString(x)
    <2>1. Json(x).kind = "json" /\ Json(x).d = x /\ x.kind \notin {"json", "text", "empty"}
      BY <1>3 DEF IsString, Json
    <2>2. Entered(x) = x
      BY <2>1 DEF Entered
    <2>3. QED
      BY <1>3, <2>1, <2>2 DEF Unwrapped, Wrapped
  <1>4. QED
    BY <1>1, <1>2, <1>3 DEF IsString

(* Where nothing is found for the first segment, nothing is read.          *)
LEMMA NothingThere ==
  ASSUME NEW w, w.kind = "json", NEW r \in Ways, r # <<>>,
         \A n \in 1..Len(r) : At(Unwrapped(w), SubSeq(r, 1, n)) = Missing
  PROVE  Final([val |-> w, path |-> r]) = Missing
  <1> DEFINE q == [val |-> w, path |-> r]
             there == {n \in 1..Len(q.path) : At(Unwrapped(q.val), SubSeq(q.path, 1, n)) # Missing}
  <1>1. q.val = w /\ q.path = r /\ Turn(q)
    BY DEF Turn
  <1>2. there = {}
    BY <1>1
  <1> HIDE DEF q
  <1>3. Deeper(q) = [val |-> Missing, path |-> <<>>]
    BY <1>1, <1>2 DEF Deeper
  <1>4. Final(q) = Final(Deeper(q))
    BY <1>1, FinalStep
  <1>5. QED
    BY <1>3, <1>4, FinalEmpty DEF q

(* What is found for the most of a path is what is read next.              *)
LEMMA MostThere ==
  ASSUME NEW w, w.kind = "json", NEW d, d = Unwrapped(w),
         NEW r \in Ways, r # <<>>, NEW n \in 1..Len(r),
         At(d, SubSeq(r, 1, n)) # Missing,
         \A m \in 1..Len(r) : At(d, SubSeq(r, 1, m)) # Missing => m <= n
  PROVE  Final([val |-> w, path |-> r]) =
            Final([val |-> At(d, SubSeq(r, 1, n)), path |-> SubSeq(r, n + 1, Len(r))])
  <1> DEFINE q == [val |-> w, path |-> r]
             there == {m \in 1..Len(q.path) : At(Unwrapped(q.val), SubSeq(q.path, 1, m)) # Missing}
  <1>1. Unwrapped(q.val) = d /\ q.val.kind = "json" /\ q.path = r /\ Turn(q)
    BY DEF Turn
  <1>2. n \in there /\ (\A m \in there : m <= n) /\ there \subseteq 1..Len(r)
    BY <1>1
  <1>3. Largest(there) = n
    <2> HIDE DEF there, q
    <2>1. Largest(there) \in there /\ \A m \in there : m <= Largest(there)
      BY <1>2, LargestFacts, PathsAreWays
    <2>2. Largest(there) \in 1..Len(r) /\ Len(r) \in Nat
      BY <1>2, <2>1, PathsAreWays
    <2>3. QED
      BY <1>2, <2>1, <2>2
  <1>4. there # {}
    BY <1>2
  <1> HIDE DEF q
  <1>5. Deeper(q) = [val |-> At(d, SubSeq(r, 1, n)), path |-> SubSeq(r, n + 1, Len(r))]
    BY <1>1, <1>3, <1>4 DEF Deeper
  <1>6. Final(q) = Final(Deeper(q))
    BY <1>1, FinalStep
  <1>7. QED
    BY <1>5, <1>6 DEF q

(* A path is looked up segment by segment, into strings too.               *)
LEMMA ReadsStep ==
  ASSUME NEW x, Value(x), NEW r \in Ways, r # <<>>, r[1] # Each
  PROVE  LET c == Child(Unwrapped(x), r[1])
         IN  /\ x.kind = "text" => Reads(x, r) = Panic
             /\ x.kind # "text" /\ c = Missing => Reads(x, r) = Missing
             /\ x.kind # "text" /\ c # Missing => Value(c) /\ Reads(x, r) = Reads(c, Tail(r))
  <1> DEFINE d == Unwrapped(x)
             c == Child(d, r[1])
             s == Tail(r)
  <1>1. Value(d) /\ s \in Ways /\ Len(s) \in Nat /\ Len(r) = Len(s) + 1
    BY UnwrappedFacts, Rest DEF Ways
  <1>2. Reads(x, r) = Final([val |-> Wrapped(x), path |-> r])
    BY ReadsIsFinal
  <1>3. Turn([val |-> Wrapped(x), path |-> r])
    BY DEF Turn
  <1>4. CASE x.kind \in {"text", "empty"}
    <2> DEFINE q == [val |-> x, path |-> r]
    <2>1. Deeper(q) = [val |-> IF x.kind = "text" THEN Panic ELSE Missing, path |-> <<>>]
      BY <1>4 DEF Deeper
    <2>2. Wrapped(x) = x /\ d = x
      BY <1>4, UnwrappedFacts
    <2>3. Final(q) = Final(Deeper(q))
      BY <1>3, <2>2, FinalStep
    <2>4. Final(q) = IF x.kind = "text" THEN Panic ELSE Missing
      BY <2>1, <2>3, FinalEmpty
    <2>5. c = Missing
      BY <1>4, <2>2 DEF Child
    <2>6. QED
      BY <1>2, <1>4, <2>2, <2>4, <2>5
  <1>5. CASE x.kind \notin {"text", "empty"}
    <2> DEFINE w == Wrapped(x)
    <2>1. w.kind = "json" /\ Unwrapped(w) = d
      BY <1>5, UnwrappedFacts
    <2>2. \A n \in 1..Len(r) : /\ c = Missing => At(d, SubSeq(r, 1, n)) = Missing
                               /\ c # Missing => At(d, SubSeq(r, 1, n)) = At(c, SubSeq(s, 1, n - 1))
      <3>1. TAKE n \in 1..Len(r)
      <3>2. PICK b : b = SubSeq(r, 1, n)
        OBVIOUS
      <3>3. b \in Ways /\ b # <<>> /\ b[1] = r[1] /\ Tail(b) = SubSeq(s, 1, n - 1)
        BY <3>2, Parts
      <3> HIDE DEF d, s
      <3>4. QED
        BY <1>1, <3>2, <3>3, AtStep
    <2> HIDE DEF d, w
    <2>3. CASE c = Missing
      BY <1>1, <1>2, <1>5, <2>1, <2>2, <2>3, NothingThere DEF d, w
    <2>4. CASE c # Missing
      <3>1. Value(c)
        BY <1>1, <2>4, ChildFacts
      <3>2. 1 \in 1..Len(r) /\ SubSeq(s, 1, 1 - 1) = <<>>
        BY <1>1
      <3>3. At(d, SubSeq(r, 1, 1)) = c
        BY <2>2, <2>4, <3>2, AtEmpty
      <3> HIDE DEF c
      <3>4. SubSeq(r, 1 + 1, Len(r)) = s
        BY TailIsSubSeq DEF Ways
      <3>5. ASSUME \A m \in 1..Len(s) : At(c, SubSeq(s, 1, m)) = Missing
            PROVE  Final([val |-> w, path |-> r]) = Final([val |-> c, path |-> s])
        <4>1. \A m \in 1..Len(r) : At(d, SubSeq(r, 1, m)) # Missing => m <= 1
          <5>1. SUFFICES ASSUME NEW m \in 1..Len(r), m # 1
                         PROVE  At(d, SubSeq(r, 1, m)) = Missing
            OBVIOUS
          <5>2. m - 1 \in 1..Len(s)
            BY <1>1, <5>1
          <5> HIDE DEF s
          <5>3. QED
            BY <2>2, <2>4, <3>5, <5>2
        <4>2. At(d, SubSeq(r, 1, 1)) # Missing
          BY <2>4, <3>3
        <4>3. Final([val |-> w, path |-> r]) =
                 Final([val |-> At(d, SubSeq(r, 1, 1)), path |-> SubSeq(r, 1 + 1, Len(r))])
          BY <2>1, <3>2, <4>1, <4>2, MostThere
        <4>4. QED
          BY <3>3, <3>4, <4>3
      <3>6. CASE s = <<>>
        <4>1. \A m \in 1..Len(s) : At(c, SubSeq(s, 1, m)) = Missing
          <5> HIDE DEF s
          <5>1. QED
            BY <3>6
        <4>2. Final([val |-> w, path |-> r]) = c
          BY <3>5, <3>6, <4>1, FinalEmpty
        <4>3. QED
          BY <1>2, <1>5, <2>1, <2>4, <3>1, <3>6, <4>2 DEF Reads, c, d, w
      <3>7. CASE s # <<>> /\ \A m \in 1..Len(s) : At(c, SubSeq(s, 1, m)) = Missing
        <4>1. Reads(x, r) = Final([val |-> c, path |-> s])
          BY <1>2, <2>1, <3>5, <3>7 DEF w
        <4>2. Reads(c, s) = Final([val |-> Wrapped(c), path |-> s])
          BY <3>7, ReadsIsFinal
        <4>3. CASE IsString(c)
          BY <1>5, <2>4, <3>1, <4>1, <4>2, <4>3 DEF Wrapped, c, d
        <4>4. CASE ~IsString(c)
          <5>1. Final([val |-> Json(c), path |-> s]) = Missing
            <6>1. Json(c).kind = "json" /\ Unwrapped(Json(c)) = c
              BY <3>1, <4>4, UnwrappedFacts DEF Json
            <6>2. QED
              BY <1>1, <3>7, <6>1, NothingThere
          <5>2. Turn([val |-> c, path |-> s])
            BY <1>1 DEF Turn
          <5>3. Deeper([val |-> c, path |-> s]) = [val |-> Missing, path |-> <<>>]
            BY <3>7, <4>4 DEF Deeper, IsString
          <5>4. Final([val |-> c, path |-> s]) = Missing
            BY <3>7, <5>2, <5>3, FinalStep, FinalEmpty
          <5>5. QED
            BY <1>5, <2>4, <3>1, <4>1, <4>2, <4>4, <5>1, <5>4 DEF Wrapped, c, d
        <4>5. QED
          BY <4>3, <4>4
      <3>8. CASE s # <<>> /\ ~ \A m \in 1..Len(s) : At(c, SubSeq(s, 1, m)) = Missing
        <4>1. PICK k \in 1..Len(s) : At(c, SubSeq(s, 1, k)) # Missing
          BY <3>8
        <4>2. IsTree(c)
          <5>1. SubSeq(s, 1, k) \in Ways /\ SubSeq(s, 1, k) # <<>>
            BY <1>1, <3>8, <4>1, Parts
          <5>2. QED
            BY <3>1, <4>1, <5>1, AtNoTree
        <4>3. Wrapped(c) = Json(c) /\ Json(c).kind = "json" /\ Unwrapped(Json(c)) = c
          BY <3>1, <4>2, UnwrappedFacts DEF Json, IsString, IsTree
        <4> DEFINE T == {m \in 1..Len(s) : At(c, SubSeq(s, 1, m)) # Missing}
                   n == Largest(T)
        <4>4. T # {} /\ T \subseteq 1..Len(s)
          BY <4>1
        <4>5. n \in T /\ \A m \in T : m <= n
          <5> HIDE DEF T
          <5>1. QED
            BY <1>1, <4>4, LargestFacts
        <4>6. /\ n \in 1..Len(s) /\ At(c, SubSeq(s, 1, n)) # Missing
              /\ \A m \in 1..Len(s) : At(c, SubSeq(s, 1, m)) # Missing => m <= n
          BY <4>5
        <4> HIDE DEF T, n
        <4>7. Final([val |-> Json(c), path |-> s]) =
                 Final([val |-> At(c, SubSeq(s, 1, n)), path |-> SubSeq(s, n + 1, Len(s))])
          <5>1. PICK j : j = Json(c)
            OBVIOUS
          <5>2. j.kind = "json" /\ c = Unwrapped(j) /\ s \in Ways /\ s # <<>>
            BY <1>1, <3>8, <4>3, <5>1
          <5> HIDE DEF s
          <5>3. Final([val |-> j, path |-> s]) =
                   Final([val |-> At(c, SubSeq(s, 1, n)), path |-> SubSeq(s, n + 1, Len(s))])
            BY <4>6, <5>2, MostThere
          <5>4. QED
            BY <5>1, <5>3
        <4>8. n + 1 \in 1..Len(r) /\ (n + 1) - 1 = n
          BY <1>1, <4>6
        <4>9. At(d, SubSeq(r, 1, n + 1)) = At(c, SubSeq(s, 1, n))
          BY <2>2, <2>4, <4>8
        <4>10. \A m \in 1..Len(r) : At(d, SubSeq(r, 1, m)) # Missing => m <= n + 1
          <5>1. SUFFICES ASSUME NEW m \in 1..Len(r), At(d, SubSeq(r, 1, m)) # Missing
                         PROVE  m <= n + 1
            OBVIOUS
          <5>2. CASE m = 1
            BY <4>6, <5>2
          <5>3. CASE m # 1
            <6>1. m - 1 \in 1..Len(s)
              BY <1>1, <5>3
            <6>2. At(c, SubSeq(s, 1, m - 1)) # Missing
              BY <2>2, <2>4, <5>1
            <6>3. m - 1 <= n
              BY <4>6, <6>1, <6>2
            <6>4. QED
              BY <4>6, <6>3
          <5>4. QED
            BY <5>2, <5>3
        <4>11. Final([val |-> w, path |-> r]) =
                  Final([val |-> At(d, SubSeq(r, 1, n + 1)), path |-> SubSeq(r, (n + 1) + 1, Len(r))])
          BY <2>1, <4>6, <4>8, <4>9, <4>10, MostThere
        <4>12. SubSeq(r, (n + 1) + 1, Len(r)) = SubSeq(s, n + 1, Len(s))
          BY <4>8, Parts
        <4>13. Reads(c, s) = Final([val |-> Json(c), path |-> s])
          BY <3>8, <4>3, ReadsIsFinal
        <4>14. QED
          BY <1>2, <1>5, <2>1, <2>4, <3>1, <4>7, <4>9, <4>11, <4>12, <4>13 DEF c, d, w
      <3>9. QED
        BY <3>6, <3>7, <3>8
    <2>5. QED
      BY <2>3, <2>4
  <1>6. QED
    BY <1>4, <1>5

(* A column is looked up in an array, the strings in it not looked into.   *)
LEMMA ReadsColumn ==
  ASSUME NEW x, Value(x), Unwrapped(x).kind = "arr",
         NEW r \in Ways, r # <<>>, r[1] = Each, Tail(r) # <<>>
  PROVE  Reads(x, r) = At(Unwrapped(x), r)
  <1> DEFINE d == Unwrapped(x)
             n == Len(r)
  <1>1. Value(d) /\ n \in Nat /\ n # 0
    BY UnwrappedFacts, PathsAreWays
  <1>2. At(d, r) # Missing
    <2>1. \A e : Arr(e) # Missing
      BY DEF Arr, Missing
    <2>2. r[1] = Each /\ d.kind = "arr" /\ Tail(r) # <<>>
      OBVIOUS
    <2> HIDE DEF d
    <2>3. QED
      BY <1>1, <2>1, <2>2, AtStep
  <1>3. x.kind \notin {"text", "empty"}
    BY DEF Unwrapped
  <1> DEFINE w == Wrapped(x)
  <1>4. Reads(x, r) = Final([val |-> w, path |-> r]) /\ w.kind = "json" /\ Unwrapped(w) = d
    BY <1>3, ReadsIsFinal, UnwrappedFacts
  <1> HIDE DEF d, w
  <1>5. SubSeq(r, 1, n) = r
    BY SubSeqFull DEF Ways
  <1>6. SubSeq(r, n + 1, n) = <<>>
    BY <1>1, SubSeqEmpty
  <1>7. n \in 1..Len(r) /\ \A m \in 1..Len(r) : m <= n
    BY <1>1
  <1>8. At(d, SubSeq(r, 1, n)) # Missing
    <2> HIDE DEF n
    <2>1. QED
      BY <1>2, <1>5
  <1> HIDE DEF n
  <1>9. Final([val |-> w, path |-> r]) =
           Final([val |-> At(d, SubSeq(r, 1, n)), path |-> SubSeq(r, n + 1, Len(r))])
    BY <1>4, <1>7, <1>8, MostThere
  <1>10. Final([val |-> w, path |-> r]) = At(d, r)
    BY <1>5, <1>6, <1>9, FinalEmpty DEF n
  <1>11. QED
    BY <1>4, <1>10 DEF d

-----------------------------------------------------------------------------
-----------------------------------------------------------------------------
(* What is read is a value, or nothing, or the call panics.                *)
LEMMA ReadsType ==
  ASSUME NEW x, Value(x), NEW r \in Ways
  PROVE  Reads(x, r) = Panic \/ Node(Reads(x, r))
  <1> DEFINE Good(q) == Turn(q) /\ (q.val = Panic \/ Node(q.val))
  <1>1. ASSUME NEW q, Good(q) PROVE Good(Deeper(q))
    <2>1. Turn(Deeper(q))
      BY <1>1, DeeperShrinks
    <2> DEFINE d == Unwrapped(q.val)
               there == {n \in 1..Len(q.path) : At(d, SubSeq(q.path, 1, n)) # Missing}
               n == Largest(there)
    <2>2. CASE q.path = <<>>
      BY <1>1, <2>2, DeeperShrinks
    <2>3. CASE q.path # <<>> /\ q.val.kind = "json" /\ there # {}
      <3>1. Deeper(q).val = At(d, SubSeq(q.path, 1, n))
        BY <2>3 DEF Deeper
      <3>2. n \in 1..Len(q.path)
        <4>1. there \subseteq 1..Len(q.path) /\ Len(q.path) \in Nat
          BY <1>1, PathsAreWays DEF Turn
        <4> HIDE DEF there
        <4>2. QED
          BY <2>3, <4>1, LargestFacts
      <3>3. Value(d)
        <4>1. Value(q.val)
          BY <1>1, <2>3 DEF Node, Missing, Panic
        <4>2. QED
          BY <4>1, UnwrappedFacts
      <3>4. SubSeq(q.path, 1, n) \in Ways
        <4> HIDE DEF n
        <4>1. QED
          BY <1>1, <2>3, <3>2, Parts DEF Turn
      <3> HIDE DEF n
      <3>5. QED
        BY <2>1, <3>1, <3>3, <3>4, AtType
    <2>4. CASE q.path # <<>> /\ ~(q.val.kind = "json" /\ there # {})
      <3>1. Deeper(q).val \in {Panic, Missing}
        BY <2>4 DEF Deeper
      <3>2. QED
        BY <2>1, <3>1 DEF Node
    <2>5. QED
      BY <2>2, <2>3, <2>4
  <1> HIDE DEF Good
  <1>2. ASSUME NEW q, Good(q), NEW n \in Nat PROVE Good(Turns(q, n)[n])
    <2> DEFINE S == {k \in Nat : k \in 0..n => Good(Turns(q, n)[k])}
    <2>1. 0 \in S
      BY <1>2, TurnsUnfold
    <2>2. ASSUME NEW k \in S PROVE k + 1 \in S
      <3>1. SUFFICES ASSUME k + 1 \in 0..n PROVE Good(Turns(q, n)[k + 1])
        OBVIOUS
      <3>2. Good(Turns(q, n)[k]) /\ Turns(q, n)[k + 1] = Deeper(Turns(q, n)[k])
        BY <3>1, TurnsUnfold
      <3>3. QED
        BY <1>1, <3>2
    <2>3. S \in SUBSET Nat
      OBVIOUS
    <2> HIDE DEF S
    <2>4. n \in S
      BY <2>1, <2>2, <2>3, SetInduction
    <2>5. QED
      BY <2>4 DEF S
  <1>3. CASE r = <<>>
    BY <1>3 DEF Reads, Node
  <1>4. CASE r # <<>>
    <2> DEFINE q == [val |-> Wrapped(x), path |-> r]
    <2>1. Value(Wrapped(x))
      BY JsonIsValue DEF Wrapped
    <2>2. Good(q) /\ Len(q.path) \in Nat
      BY <2>1, PathsAreWays DEF Good, Turn, Node
    <2>3. Reads(x, r) = Final(q)
      BY <1>4, ReadsIsFinal
    <2> HIDE DEF q
    <2>4. QED
      BY <1>2, <2>2, <2>3 DEF Final, Good
  <1>5. QED
    BY <1>3, <1>4

-----------------------------------------------------------------------------
(* The first step of a walk.                                               *)
LEMMA WalksStep ==
  ASSUME NEW v, NEW p \in Ways
  PROVE  /\ Walks(v, p)[0] = v
         /\ p # <<>> => \A k \in 0..Len(Tail(p)) :
               Walks(v, p)[k + 1] = Walks(Child(Unwrapped(v), p[1]), Tail(p))[k]
  <1> DEFINE n == Len(p)
             q == Tail(p)
             m == Len(q)
             c == Child(Unwrapped(v), p[1])
  <1>1. n \in Nat
    BY LenProperties DEF Ways
  <1>2. Walks(v, p)[0] = v /\ \A k \in 0..n : k + 1 \in 0..n =>
           Walks(v, p)[k + 1] = Child(Unwrapped(Walks(v, p)[k]), p[k + 1])
    BY WalksUnfold, <1>1
  <1>3. SUFFICES ASSUME p # <<>>
                 PROVE  \A k \in 0..m : Walks(v, p)[k + 1] = Walks(c, q)[k]
    BY <1>2
  <1>4. q \in Ways /\ m \in Nat /\ n = m + 1 /\ \A k \in 1..m : q[k] = p[k + 1]
    BY <1>3, Rest DEF Ways
  <1>5. Walks(c, q)[0] = c /\ \A k \in 0..m : k + 1 \in 0..m =>
           Walks(c, q)[k + 1] = Child(Unwrapped(Walks(c, q)[k]), q[k + 1])
    <2>1. Len(q) \in Nat /\ m = Len(q)
      BY <1>4
    <2> HIDE DEF q, c, m
    <2>2. QED
      BY <2>1, WalksUnfold
  <1> DEFINE S == {k \in Nat : k \in 0..m => Walks(v, p)[k + 1] = Walks(c, q)[k]}
  <1> HIDE DEF m, q, n
  <1>6. 0 \in S
    <2>1. 0 \in 0..n /\ 0 + 1 \in 0..n
      BY <1>1, <1>4
    <2>2. QED
      BY <1>2, <1>5, <2>1
  <1>7. ASSUME NEW k \in S PROVE k + 1 \in S
    <2>1. SUFFICES ASSUME k + 1 \in 0..m
                   PROVE  Walks(v, p)[(k + 1) + 1] = Walks(c, q)[k + 1]
      OBVIOUS
    <2>2. k \in 0..m /\ k + 1 \in 0..n /\ (k + 1) + 1 \in 0..n /\ k + 1 \in 1..m
      BY <1>4, <2>1
    <2>3. Walks(v, p)[(k + 1) + 1] = Child(Unwrapped(Walks(v, p)[k + 1]), p[(k + 1) + 1])
      BY <1>2, <2>2
    <2>4. Walks(c, q)[k + 1] = Child(Unwrapped(Walks(c, q)[k]), q[k + 1])
      BY <1>5, <2>1, <2>2
    <2>5. q[k + 1] = p[(k + 1) + 1]
      BY <1>4, <2>2
    <2>6. Walks(v, p)[k + 1] = Walks(c, q)[k]
      BY <2>2
    <2>7. QED
      BY <2>3, <2>4, <2>5, <2>6
  <1>8. S \in SUBSET Nat
    OBVIOUS
  <1> HIDE DEF S, c
  <1>9. S = Nat
    BY <1>6, <1>7, <1>8, SetInduction
  <1>10. \A k \in 0..m : k \in S
    BY <1>4, <1>9
  <1>11. QED
    BY <1>10 DEF S

(* A walk goes to the child and on.                                        *)
LEMMA WalkStep ==
  ASSUME NEW v, NEW p \in Ways, p # <<>>
  PROVE  LET c == Child(Unwrapped(v), p[1])
         IN  /\ Walk(v, p) = Walk(c, Tail(p))
             /\ MeetsText(v, p) <=> v.kind = "text" \/ MeetsText(c, Tail(p))
  <1> DEFINE c == Child(Unwrapped(v), p[1])
             q == Tail(p)
             m == Len(q)
  <1>1. m \in Nat /\ Len(p) = m + 1
    BY Rest DEF Ways
  <1>2. Walks(v, p)[0] = v /\ \A k \in 0..m : Walks(v, p)[k + 1] = Walks(c, q)[k]
    BY WalksStep
  <1> HIDE DEF c
  <1>3. Walk(v, p) = Walk(c, q)
    BY <1>1, <1>2 DEF Walk
  <1>4. MeetsText(v, p) <=> \E n \in 0..m : Walks(v, p)[n].kind = "text"
    <2>1. Len(p) - 1 = m
      BY <1>1
    <2>2. QED
      BY <2>1 DEF MeetsText
  <1>5. MeetsText(c, q) <=> \E n \in 0..(m - 1) : Walks(c, q)[n].kind = "text"
    BY DEF MeetsText
  <1> HIDE DEF m, q
  <1>6. ASSUME MeetsText(v, p) PROVE v.kind = "text" \/ MeetsText(c, q)
    <2>1. PICK n \in 0..m : Walks(v, p)[n].kind = "text"
      BY <1>4, <1>6
    <2>2. CASE n = 0
      BY <1>2, <2>1, <2>2
    <2>3. CASE n # 0
      <3>1. n - 1 \in 0..(m - 1) /\ n - 1 \in 0..m /\ (n - 1) + 1 = n
        BY <1>1, <2>3
      <3>2. Walks(c, q)[n - 1].kind = "text"
        BY <1>2, <2>1, <3>1
      <3>3. QED
        BY <1>5, <3>1, <3>2
    <2>4. QED
      BY <2>2, <2>3
  <1>7. ASSUME v.kind = "text" PROVE MeetsText(v, p)
    BY <1>1, <1>2, <1>4, <1>7
  <1>8. ASSUME MeetsText(c, q) PROVE MeetsText(v, p)
    <2>1. PICK n \in 0..(m - 1) : Walks(c, q)[n].kind = "text"
      BY <1>5, <1>8
    <2>2. n \in 0..m /\ n + 1 \in 0..m
      BY <1>1
    <2>3. Walks(v, p)[n + 1].kind = "text"
      BY <1>2, <2>1, <2>2
    <2>4. QED
      BY <1>4, <2>2, <2>3
  <1>9. QED
    BY <1>3, <1>6, <1>7, <1>8 DEF c, q

(* A walk of no steps.                                                     *)
LEMMA WalkEmpty ==
  ASSUME NEW v
  PROVE  Walk(v, <<>>) = v /\ ~MeetsText(v, <<>>)
  <1>1. <<>> \in Ways /\ Len(<<>>) = 0 /\ ~ \E n \in 0..(0 - 1) : TRUE
    BY DEF Ways
  <1>2. Walks(v, <<>>)[0] = v
    BY <1>1, WalksStep
  <1>3. QED
    BY <1>1, <1>2 DEF Walk, MeetsText

(* Turns and walks come to the same, here and in what is below.            *)
LEMMA TurnsAreWalk ==
  ASSUME NEW x, Value(x), NEW r \in Plain
  PROVE  Reads(x, r) = IF MeetsText(x, r) THEN Panic ELSE Walk(x, r)
  <1> DEFINE Agree(c, s) == Reads(c, s) = IF MeetsText(c, s) THEN Panic ELSE Walk(c, s)
             S == {n \in Nat : \A s \in Plain : Len(s) = n =>
                     /\ Walk(Missing, s) = Missing /\ ~MeetsText(Missing, s)
                     /\ \A c : Value(c) => Agree(c, s)}
  <1>1. 0 \in S
    <2>1. \A s \in Plain : Len(s) = 0 => s = <<>>
      BY EmptySeq DEF Plain
    <2>2. \A c : Reads(c, <<>>) = c
      BY DEF Reads
    <2>3. QED
      BY <2>1, <2>2, WalkEmpty
  <1>2. ASSUME NEW n \in S PROVE n + 1 \in S
    <2>1. SUFFICES ASSUME NEW s \in Plain, Len(s) = n + 1
                   PROVE  /\ Walk(Missing, s) = Missing /\ ~MeetsText(Missing, s)
                          /\ \A c : Value(c) => Agree(c, s)
      OBVIOUS
    <2>2. s # <<>>
      BY <2>1
    <2>3. s \in Ways /\ s[1] # Each /\ Tail(s) \in Plain /\ Len(Tail(s)) = n
      BY <2>1, <2>2, PlainWays, Rest DEF Plain
    <2>4. /\ Walk(Missing, Tail(s)) = Missing /\ ~MeetsText(Missing, Tail(s))
          /\ \A c : Value(c) => Agree(c, Tail(s))
      BY <2>3
    <2>5. Walk(Missing, s) = Missing /\ ~MeetsText(Missing, s)
      <3>1. Child(Unwrapped(Missing), s[1]) = Missing /\ Missing.kind # "text"
        BY DEF Missing, Unwrapped, Child
      <3>2. QED
        BY <2>2, <2>3, <2>4, <3>1, WalkStep
    <2>6. ASSUME NEW c, Value(c) PROVE Agree(c, s)
      <3> DEFINE b == Child(Unwrapped(c), s[1])
      <3>1. /\ Walk(c, s) = Walk(b, Tail(s))
            /\ MeetsText(c, s) <=> c.kind = "text" \/ MeetsText(b, Tail(s))
        BY <2>2, <2>3, WalkStep
      <3>2. /\ c.kind = "text" => Reads(c, s) = Panic
            /\ c.kind # "text" /\ b = Missing => Reads(c, s) = Missing
            /\ c.kind # "text" /\ b # Missing => Value(b) /\ Reads(c, s) = Reads(b, Tail(s))
        BY <2>2, <2>3, <2>6, ReadsStep
      <3> HIDE DEF b
      <3>3. CASE c.kind = "text"
        BY <3>1, <3>2, <3>3
      <3>4. CASE c.kind # "text" /\ b = Missing
        BY <2>4, <3>1, <3>2, <3>4
      <3>5. CASE c.kind # "text" /\ b # Missing
        BY <2>4, <3>1, <3>2, <3>5
      <3>6. QED
        BY <3>3, <3>4, <3>5
    <2>7. QED
      BY <2>5, <2>6
  <1>3. S \in SUBSET Nat
    OBVIOUS
  <1> HIDE DEF S
  <1>4. Len(r) \in S
    BY <1>1, <1>2, <1>3, SetInduction, PlainWays
  <1> USE DEF S
  <1>5. QED
    BY <1>4

(* GetValueFromJson, which looks up ever shorter prefixes and then again   *)
(* in the string found, comes to what a walk from the top comes to, and    *)
(* panics where the walk meets a text that is no JSON.  Where the walk     *)
(* would come to the escaped quotation marks of a text inside a text,      *)
(* nothing is said.                                                        *)
THEOREM ReadsIsWalk ==
  ASSUME NEW x, Value(x), NEW r \in Plain, ~MeetsGarbled(x, r)
  PROVE  Reads(x, r) = IF MeetsText(x, r) THEN Panic ELSE Walk(x, r)
  BY TurnsAreWalk

-----------------------------------------------------------------------------
-----------------------------------------------------------------------------
(* In which form what is no string is looked up in makes no difference.    *)
LEMMA ReadsJson ==
  ASSUME NEW y, ~IsString(y), NEW r, r # <<>>
  PROVE  Reads(Json(y), r) = Reads(y, r)
  BY DEF Reads, Wrapped, IsString, Json

(* A walk goes through a JSON text as through what it is the text of.      *)
LEMMA WalksJson ==
  ASSUME NEW y, ~IsString(y), NEW p \in Ways
  PROVE  \A k \in 1..Len(p) : Walks(Json(y), p)[k] = Walks(y, p)[k]
  <1>1. Unwrapped(Json(y)) = y /\ Unwrapped(y) = y
    BY DEF Unwrapped, Entered, Json, IsString
  <1>2. SUFFICES ASSUME NEW k \in 1..Len(p) PROVE Walks(Json(y), p)[k] = Walks(y, p)[k]
    OBVIOUS
  <1>3. p # <<>>
    BY <1>2
  <1>4. PICK j \in 0..Len(Tail(p)) : j + 1 = k
    <2>1. k - 1 \in 0..Len(Tail(p)) /\ (k - 1) + 1 = k
      BY <1>3, Rest DEF Ways
    <2>2. QED
      BY <2>1
  <1>5. /\ Walks(Json(y), p)[j + 1] = Walks(Child(Unwrapped(Json(y)), p[1]), Tail(p))[j]
        /\ Walks(y, p)[j + 1] = Walks(Child(Unwrapped(y), p[1]), Tail(p))[j]
    BY <1>3, WalksStep
  <1>6. QED
    BY <1>1, <1>4, <1>5

(* As far as q goes along with p, no string is met in the document d.      *)
Along(p, q, k) == k <= Len(p) /\ \A j \in 1..k : p[j] = q[j]
Clear(d, p, q) ==
  /\ ~IsString(d)
  /\ \A k \in 1..Len(q) : Along(p, q, k) => ~IsString(Walks(Json(d), q)[k])

(* A way that is clear of strings is so below its first segment.           *)
LEMMA ClearRest ==
  ASSUME NEW d, NEW p \in Plain, NEW q \in Plain, p # <<>>, q # <<>>, p[1] = q[1], Clear(d, p, q)
  PROVE  /\ ~IsString(Child(d, q[1]))
         /\ Clear(Child(d, q[1]), Tail(p), Tail(q))
  <1> DEFINE c == Child(d, q[1])
             s == Tail(q)
  <1>1. /\ q \in Ways /\ s \in Ways /\ Len(s) \in Nat /\ Len(q) = Len(s) + 1
        /\ \A k \in 1..Len(s) : s[k] = q[k + 1]
        /\ Len(p) \in Nat /\ Len(p) >= 1 /\ Len(Tail(p)) = Len(p) - 1
        /\ \A k \in 1..Len(Tail(p)) : Tail(p)[k] = p[k + 1]
    <2>1. q \in Ways /\ s \in Ways
      BY PlainWays
    <2>2. Len(s) \in Nat /\ Len(q) \in Nat /\ Len(s) = Len(q) - 1
          /\ \A k \in 1..Len(s) : s[k] = q[k + 1]
      BY Rest DEF Plain
    <2>3. Len(p) \in Nat /\ Len(p) >= 1 /\ Len(Tail(p)) = Len(p) - 1
          /\ \A k \in 1..Len(Tail(p)) : Tail(p)[k] = p[k + 1]
      BY Rest DEF Plain
    <2> HIDE DEF s
    <2>4. QED
      BY <2>1, <2>2, <2>3
  <1>2. Unwrapped(Json(d)) = d
    BY DEF Unwrapped, Entered, Json, Clear, IsString
  <1>3. \A k \in 0..Len(s) : Walks(Json(d), q)[k + 1] = Walks(c, s)[k]
    BY <1>1, <1>2, WalksStep
  <1>4. Walks(c, s)[0] = c
    BY <1>1, WalksStep
  <1> HIDE DEF c, s
  <1>5. ~IsString(c)
    <2>1. 1 \in 1..Len(q) /\ 0 \in 0..Len(s) /\ 0 + 1 = 1
      BY <1>1
    <2>2. Along(p, q, 1)
      BY <1>1 DEF Along
    <2>3. Walks(Json(d), q)[1] = c
      BY <1>3, <1>4, <2>1
    <2>4. QED
      BY <2>1, <2>2, <2>3 DEF Clear
  <1>6. ASSUME NEW k \in 1..Len(s), Along(Tail(p), s, k)
        PROVE  ~IsString(Walks(Json(c), s)[k])
    <2>1. k + 1 \in 1..Len(q) /\ k \in 0..Len(s) /\ k \in Nat
      BY <1>1
    <2>2. Along(p, q, k + 1)
      <3>1. k + 1 <= Len(p)
        BY <1>1, <1>6, <2>1 DEF Along
      <3>2. ASSUME NEW j \in 1..(k + 1) PROVE p[j] = q[j]
        <4>1. CASE j = 1
          BY <4>1
        <4>2. CASE j # 1
          <5>1. j - 1 \in 1..k /\ j - 1 \in 1..Len(Tail(p)) /\ j - 1 \in 1..Len(s) /\ (j - 1) + 1 = j
            BY <1>1, <2>1, <3>1, <4>2
          <5>2. Tail(p)[j - 1] = s[j - 1]
            BY <1>6, <5>1 DEF Along
          <5>3. QED
            BY <1>1, <5>1, <5>2
        <4>3. QED
          BY <4>1, <4>2
      <3>3. QED
        BY <3>1, <3>2 DEF Along
    <2>3. ~IsString(Walks(Json(d), q)[k + 1])
      BY <2>1, <2>2 DEF Clear
    <2>4. Walks(Json(c), s)[k] = Walks(c, s)[k]
      BY <1>1, <1>5, WalksJson
    <2>5. QED
      BY <1>3, <2>1, <2>3, <2>4
  <1>7. QED
    BY <1>5, <1>6 DEF Clear, c, s

(* What was read on another path still is, unless a string was replaced on *)
(* the way; and no new string is met there.                                *)
LEMMA ReadsApart ==
  ASSUME NEW p \in Plain, NEW q \in Plain, Diverge(p, q), NEW d, Value(d), NEW v, Value(v),
         SetIn(d, p, v) # Panic, Found(Reads(Json(d), q)), Clear(d, p, q)
  PROVE  /\ Reads(Json(SetIn(d, p, v)), q) = Reads(Json(d), q)
         /\ \A k \in 1..Len(q) : IsString(Walks(Json(SetIn(d, p, v)), q)[k]) =>
                                    IsString(Walks(Json(d), q)[k])
  <1> DEFINE Keeps(T, c, s) ==
                /\ Reads(Json(T), s) = Reads(Json(c), s)
                /\ \A k \in 1..Len(s) : IsString(Walks(Json(T), s)[k]) => IsString(Walks(Json(c), s)[k])
             S == {n \in Nat : \A r, s \in Plain : Len(r) = n /\ Diverge(r, s) =>
                     \A c : Value(c) /\ SetIn(c, r, v) # Panic /\ Found(Reads(Json(c), s))
                               /\ Clear(c, r, s)
                            => Keeps(SetIn(c, r, v), c, s)}
  <1>1. 0 \in S
    <2>1. \A r \in Plain : \A s : Diverge(r, s) => Len(r) # 0
      BY PlainWays DEF Diverge
    <2>2. QED
      BY <2>1
  <1>2. ASSUME NEW n \in S PROVE n + 1 \in S
    <2>1. SUFFICES ASSUME NEW r \in Plain, NEW s \in Plain, Len(r) = n + 1, Diverge(r, s), NEW c,
                          Value(c), SetIn(c, r, v) # Panic, Found(Reads(Json(c), s)), Clear(c, r, s)
                   PROVE  Keeps(SetIn(c, r, v), c, s)
      OBVIOUS
    <2>2. r # <<>> /\ s # <<>> /\ (r[1] = s[1] => Diverge(Tail(r), Tail(s)) /\ Tail(r) # <<>>)
      BY <2>1, ApartRest
    <2>3. /\ r \in Ways /\ r[1] \in Segs /\ Tail(r) \in Plain /\ Len(Tail(r)) = n
          /\ s \in Ways /\ s[1] \in Segs /\ s[1] # Each /\ Tail(s) \in Plain /\ Tail(s) \in Ways
          /\ Len(Tail(s)) \in Nat /\ Len(s) = Len(Tail(s)) + 1
      <3>1. r \in Ways /\ r[1] \in Segs /\ Tail(r) \in Plain
            /\ s \in Ways /\ s[1] \in Segs /\ s[1] # Each /\ Tail(s) \in Plain
        BY <2>2, PlainWays
      <3>2. Tail(s) \in Ways
        BY <3>1, PlainWays
      <3>3. Len(Tail(r)) = n
        BY <2>1, <2>2, Rest DEF Plain
      <3>4. Len(s) \in Nat /\ Len(Tail(s)) \in Nat /\ Len(Tail(s)) = Len(s) - 1
        BY <2>2, Rest DEF Plain
      <3>5. Len(s) = Len(Tail(s)) + 1
        BY <3>4
      <3>6. QED
        BY <3>1, <3>2, <3>3, <3>4, <3>5
    <2> DEFINE b == Child(c, r[1])
               y == SetIn(b, Tail(r), v)
               R == Replaced(c, r[1], y)
    <2>4. SetIn(c, r, v) = R
      BY <2>2, <2>3, SetStep
    <2>5. y # Panic
      BY <2>1, <2>4 DEF Replaced
    <2>6. Node(c) /\ Node(b)
      BY <2>1, NodeFacts DEF Node
    <2>7. Value(y) /\ (Tail(r) # <<>> => IsTree(y))
      BY <2>3, <2>5, <2>6, SetFacts
    <2> HIDE DEF y, b
    <2>8. /\ Value(R) /\ Child(R, r[1]) = y
          /\ \A t \in Segs : t # r[1] /\ Child(c, t) # Missing => Child(R, t) = Child(c, t)
      BY <2>1, <2>3, <2>4, <2>6, <2>7, ReplacedFacts
    <2> HIDE DEF R
    <2>16. ~IsString(c) /\ ~IsString(R)
      <3>1. IsTree(R)
        BY <2>1, <2>2, <2>3, <2>4, <2>6, SetFacts
      <3>2. QED
        BY <2>1, <3>1 DEF Clear, IsTree, IsString
    <2>9. \A x : ~IsString(x) => Unwrapped(Json(x)) = x /\ Json(x).kind # "text"
      BY DEF Unwrapped, Entered, Json, IsString
    <2>10. /\ Child(c, s[1]) # Missing /\ Value(Child(c, s[1]))
           /\ Reads(Json(c), s) = Reads(Child(c, s[1]), Tail(s))
      BY <2>1, <2>2, <2>3, <2>9, <2>16, JsonIsValue, ReadsStep DEF Found
    <2>11. Child(R, s[1]) # Missing => Reads(Json(R), s) = Reads(Child(R, s[1]), Tail(s))
      BY <2>2, <2>3, <2>8, <2>9, <2>16, JsonIsValue, ReadsStep
    <2>12. \A k \in 0..Len(Tail(s)) :
              /\ Walks(Json(c), s)[k + 1] = Walks(Child(c, s[1]), Tail(s))[k]
              /\ Walks(Json(R), s)[k + 1] = Walks(Child(R, s[1]), Tail(s))[k]
      BY <2>2, <2>3, <2>9, <2>16, WalksStep
    <2>13. CASE r[1] = s[1]
      <3>1. Child(c, s[1]) = b /\ Child(R, s[1]) = y
        BY <2>8, <2>13 DEF b
      <3>2. ~IsString(b) /\ Clear(b, Tail(r), Tail(s))
        BY <2>1, <2>2, <2>13, <3>1, ClearRest
      <3>3. IsTree(y) /\ ~IsString(y) /\ y # Missing
        BY <2>2, <2>7, <2>13, ValueFacts DEF IsTree, IsString
      <3>4. Tail(s) # <<>>
        <4>1. Diverge(Tail(r), Tail(s))
          BY <2>2, <2>13
        <4>2. QED
          BY <2>3, <4>1, ApartRest
      <3>5. Reads(Json(b), Tail(s)) = Reads(b, Tail(s)) /\ Reads(Json(y), Tail(s)) = Reads(y, Tail(s))
        BY <3>2, <3>3, <3>4, ReadsJson
      <3>6. Found(Reads(Json(b), Tail(s)))
        BY <2>1, <2>10, <3>1, <3>5
      <3>7. Keeps(y, b, Tail(s))
        <4> HIDE DEF Keeps
        <4>1. Value(b) /\ SetIn(b, Tail(r), v) = y
          BY <2>10, <3>1 DEF y
        <4>2. \A x : /\ Value(x) /\ SetIn(x, Tail(r), v) # Panic
                     /\ Found(Reads(Json(x), Tail(s))) /\ Clear(x, Tail(r), Tail(s))
                     => Keeps(SetIn(x, Tail(r), v), x, Tail(s))
          BY <2>2, <2>3, <2>13
        <4>3. QED
          BY <2>5, <3>2, <3>6, <4>1, <4>2
      <3>8. Reads(Json(R), s) = Reads(Json(c), s)
        BY <2>10, <2>11, <3>1, <3>3, <3>5, <3>7
      <3>9. ASSUME NEW k \in 1..Len(s), IsString(Walks(Json(R), s)[k])
            PROVE  IsString(Walks(Json(c), s)[k])
        <4>1. PICK j \in 0..Len(Tail(s)) : j + 1 = k
          <5>1. k - 1 \in 0..Len(Tail(s)) /\ (k - 1) + 1 = k
            BY <2>3
          <5>2. QED
            BY <5>1
        <4>2. Walks(Json(R), s)[k] = Walks(y, Tail(s))[j] /\ Walks(Json(c), s)[k] = Walks(b, Tail(s))[j]
          BY <2>12, <3>1, <4>1
        <4>3. Walks(y, Tail(s))[0] = y
          BY <2>3, WalksStep
        <4>4. j \in 1..Len(Tail(s))
          BY <2>3, <3>3, <3>9, <4>1, <4>2, <4>3
        <4>5. /\ Walks(Json(y), Tail(s))[j] = Walks(y, Tail(s))[j]
              /\ Walks(Json(b), Tail(s))[j] = Walks(b, Tail(s))[j]
          BY <2>3, <3>2, <3>3, <4>4, WalksJson
        <4>6. QED
          BY <3>7, <3>9, <4>2, <4>4, <4>5
      <3>10. QED
        BY <2>4, <3>8, <3>9
    <2>14. CASE r[1] # s[1]
      <3>1. Child(R, s[1]) = Child(c, s[1])
        BY <2>3, <2>8, <2>10, <2>14
      <3>2. Reads(Json(R), s) = Reads(Json(c), s)
        BY <2>10, <2>11, <3>1
      <3>3. ASSUME NEW k \in 1..Len(s) PROVE Walks(Json(R), s)[k] = Walks(Json(c), s)[k]
        <4>1. PICK j \in 0..Len(Tail(s)) : j + 1 = k
          <5>1. k - 1 \in 0..Len(Tail(s)) /\ (k - 1) + 1 = k
            BY <2>3
          <5>2. QED
            BY <5>1
        <4>2. QED
          BY <2>12, <3>1, <4>1
      <3>4. QED
        BY <2>4, <3>2, <3>3
    <2>15. QED
      BY <2>13, <2>14
  <1>3. S \in SUBSET Nat
    OBVIOUS
  <1> HIDE DEF S
  <1>4. Len(p) \in S
    BY <1>1, <1>2, <1>3, SetInduction, PlainWays
  <1> USE DEF S
  <1>5. QED
    BY <1>4

(* Reading below what is read is reading along the whole path.             *)
LEMMA ReadsBelow ==
  ASSUME NEW p \in Plain, NEW q \in Ways, Len(p) <= Len(q), \A i \in 1..Len(p) : p[i] = q[i],
         NEW x, Value(x), Found(Reads(x, p))
  PROVE  Reads(x, q) = Reads(Reads(x, p), SubSeq(q, Len(p) + 1, Len(q)))
  <1> DEFINE Begins(r, s) == Len(r) <= Len(s) /\ \A i \in 1..Len(r) : r[i] = s[i]
             Whole(r, s, c) == Reads(c, s) = Reads(Reads(c, r), SubSeq(s, Len(r) + 1, Len(s)))
             S == {n \in Nat : \A r \in Plain, s \in Ways : Len(r) = n /\ Begins(r, s) =>
                     \A c : Value(c) /\ Found(Reads(c, r)) => Whole(r, s, c)}
  <1>1. 0 \in S
    <2>1. SUFFICES ASSUME NEW r \in Plain, NEW s \in Ways, Len(r) = 0, NEW c PROVE Whole(r, s, c)
      OBVIOUS
    <2>2. r = <<>>
      BY <2>1, EmptySeq DEF Plain
    <2>3. SubSeq(s, 0 + 1, Len(s)) = s
      BY SubSeqFull DEF Ways
    <2>4. Reads(c, r) = c
      BY <2>2 DEF Reads
    <2>5. QED
      BY <2>1, <2>3, <2>4
  <1>2. ASSUME NEW n \in S PROVE n + 1 \in S
    <2>1. SUFFICES ASSUME NEW r \in Plain, NEW s \in Ways, Len(r) = n + 1, Begins(r, s), NEW c,
                          Value(c), Found(Reads(c, r))
                   PROVE  Whole(r, s, c)
      OBVIOUS
    <2>2. r # <<>>
      BY <2>1
    <2>3. r \in Ways /\ r[1] # Each /\ Tail(r) \in Plain /\ Len(Tail(r)) = n
          /\ \A i \in 1..Len(Tail(r)) : Tail(r)[i] = r[i + 1]
      BY <2>1, <2>2, PlainWays, Rest DEF Plain
    <2>4. s # <<>> /\ s[1] = r[1] /\ Len(s) \in Nat
      <3>1. Len(s) \in Nat /\ Len(s) >= n + 1 /\ 1 \in 1..Len(r)
        BY <2>1, PathsAreWays
      <3>2. s # <<>>
        BY <3>1
      <3>3. QED
        BY <2>1, <3>1, <3>2
    <2>5. Tail(s) \in Ways /\ Len(Tail(s)) = Len(s) - 1
          /\ \A i \in 1..Len(Tail(s)) : Tail(s)[i] = s[i + 1]
      BY <2>4, Rest DEF Ways
    <2>6. Begins(Tail(r), Tail(s))
      <3>1. Len(Tail(r)) <= Len(Tail(s))
        BY <2>1, <2>3, <2>4, <2>5
      <3>2. ASSUME NEW i \in 1..Len(Tail(r)) PROVE Tail(r)[i] = Tail(s)[i]
        <4>1. i \in 1..Len(Tail(s)) /\ i + 1 \in 1..Len(r)
          BY <2>1, <2>3, <2>4, <2>5, <3>1
        <4>2. QED
          BY <2>1, <2>3, <2>5, <4>1
      <3>3. QED
        BY <3>1, <3>2
    <2> HIDE DEF Begins
    <2> DEFINE b == Child(Unwrapped(c), r[1])
    <2>7. /\ Value(b) /\ Reads(c, r) = Reads(b, Tail(r))
          /\ c.kind # "text" /\ b # Missing
      BY <2>1, <2>2, <2>3, ReadsStep DEF Found
    <2>8. Reads(c, s) = Reads(b, Tail(s))
      BY <2>1, <2>3, <2>4, <2>7, ReadsStep
    <2> HIDE DEF b
    <2>9. Whole(Tail(r), Tail(s), b)
      BY <2>1, <2>3, <2>5, <2>6, <2>7
    <2>10. SubSeq(s, (n + 1) + 1, Len(s)) = SubSeq(Tail(s), n + 1, Len(Tail(s)))
      <3>1. n + 1 \in 1..Len(s)
        BY <2>1, <2>4 DEF Begins
      <3>2. QED
        BY <2>4, <3>1, Parts
    <2>11. QED
      BY <2>1, <2>3, <2>7, <2>8, <2>9, <2>10
  <1>3. S \in SUBSET Nat
    OBVIOUS
  <1> HIDE DEF S
  <1>4. Len(p) \in S
    BY <1>1, <1>2, <1>3, SetInduction, PlainWays
  <1> USE DEF S
  <1>5. QED
    BY <1>4

-----------------------------------------------------------------------------
-----------------------------------------------------------------------------
(* Paths with #, and their rows.                                           *)
LEMMA RowFacts ==
  ASSUME NEW p \in Ways, NEW i \in Nat
  PROVE  /\ Row(p, i) \in Plain /\ Len(Row(p, i)) = Len(p)
         /\ \A k \in 1..Len(p) : Row(p, i)[k] = IF p[k] = Each THEN i ELSE p[k]
         /\ InRows(p) <=> \E k \in 1..Len(p) : p[k] = Each
         /\ ~InRows(p) => p \in Plain /\ Row(p, i) = p
  <1>1. p \in Seq(Segs \cup {Each}) /\ Len(p) \in Nat /\ DOMAIN p = 1..Len(p)
        /\ \A k \in 1..Len(p) : p[k] \in Segs \cup {Each}
    BY LenProperties, ElementOfSeq DEF Ways
  <1>2. \A k \in 1..Len(p) : (IF p[k] = Each THEN i ELSE p[k]) \in Segs
    BY <1>1 DEF Segs
  <1>3. Row(p, i) = [k \in 1..Len(p) |-> IF p[k] = Each THEN i ELSE p[k]]
    BY DEF Row
  <1>4. Row(p, i) \in Plain /\ Len(Row(p, i)) = Len(p)
    BY <1>1, <1>2, <1>3 DEF Plain
  <1>5. InRows(p) <=> \E k \in 1..Len(p) : p[k] = Each
    BY <1>1 DEF InRows, ToSet
  <1>6. ASSUME ~InRows(p) PROVE p \in Plain /\ Row(p, i) = p
    <2>1. \A k \in 1..Len(p) : p[k] # Each /\ p[k] \in Segs
      BY <1>1, <1>5, <1>6
    <2>2. p = [k \in 1..Len(p) |-> p[k]]
      BY <1>1
    <2>3. Row(p, i) = p
      BY <1>3, <2>1, <2>2
    <2>4. QED
      BY <1>4, <2>3
  <1>7. QED
    BY <1>3, <1>4, <1>5, <1>6

(* The row of a path, segment by segment.                                  *)
LEMMA RowRest ==
  ASSUME NEW p \in Ways, p # <<>>, NEW i \in Nat
  PROVE  Row(p, i) # <<>> /\ Tail(Row(p, i)) = Row(Tail(p), i)
  <1>1. Tail(p) \in Ways /\ Len(p) \in Nat /\ Len(p) # 0 /\ Len(Tail(p)) = Len(p) - 1
        /\ \A k \in 1..Len(Tail(p)) : Tail(p)[k] = p[k + 1]
    BY Rest DEF Ways
  <1>2. PICK r : r = Row(p, i)
    OBVIOUS
  <1>3. PICK t : t = Row(Tail(p), i)
    OBVIOUS
  <1>4. r \in Seq(Segs) /\ Len(r) = Len(p) /\ \A k \in 1..Len(p) : r[k] = IF p[k] = Each THEN i ELSE p[k]
    BY <1>2, RowFacts DEF Plain
  <1>5. t \in Seq(Segs) /\ Len(t) = Len(Tail(p))
        /\ \A k \in 1..Len(Tail(p)) : t[k] = IF Tail(p)[k] = Each THEN i ELSE Tail(p)[k]
    BY <1>1, <1>3, RowFacts DEF Plain
  <1>6. r # <<>>
    BY <1>1, <1>4
  <1>7. PICK u : u = Tail(r)
    OBVIOUS
  <1>8. u \in Seq(Segs) /\ Len(u) = Len(r) - 1 /\ \A k \in 1..Len(u) : u[k] = r[k + 1]
    BY <1>4, <1>6, <1>7, Rest
  <1>9. Len(u) = Len(t) /\ \A k \in 1..Len(u) : u[k] = t[k]
    <2>1. Len(u) = Len(t)
      BY <1>1, <1>4, <1>5, <1>8
    <2>2. ASSUME NEW k \in 1..Len(u) PROVE u[k] = t[k]
      <3>1. k \in 1..Len(Tail(p)) /\ k + 1 \in 1..Len(p)
        BY <1>1, <1>4, <1>8
      <3>2. u[k] = r[k + 1] /\ r[k + 1] = IF p[k + 1] = Each THEN i ELSE p[k + 1]
        BY <1>4, <1>8, <3>1
      <3>3. t[k] = IF Tail(p)[k] = Each THEN i ELSE Tail(p)[k]
        BY <1>5, <3>1
      <3>4. Tail(p)[k] = p[k + 1]
        BY <1>1, <3>1
      <3>5. QED
        BY <3>2, <3>3, <3>4
    <2>3. QED
      BY <2>1, <2>2
  <1>10. u = t
    BY <1>5, <1>8, <1>9, SeqEqual
  <1>11. QED
    BY <1>2, <1>3, <1>6, <1>7, <1>10

(* Two rows of a path with # diverge.                                      *)
LEMMA RowsApart ==
  ASSUME NEW p \in Ways, InRows(p), NEW i \in Nat, NEW j \in Nat, i # j
  PROVE  Diverge(Row(p, i), Row(p, j))
  <1>1. PICK k \in 1..Len(p) : p[k] = Each
    BY RowFacts
  <1>2. Row(p, i)[k] = i /\ Row(p, j)[k] = j
    BY <1>1, RowFacts
  <1>3. k \in 1..Len(Row(p, i)) /\ k \in 1..Len(Row(p, j))
    BY RowFacts
  <1>4. QED
    BY <1>2, <1>3 DEF Diverge

(* What is written for a value.                                            *)
LEMMA TypedFacts ==
  ASSUME NEW type, NEW v, Value(v)
  PROVE  Value(Typed(type, v)) /\ (v # Nil => Typed(type, v) = v)
  <1>1. Value(Arr(<<>>))
    <2>1. <<>> = [i \in 1..0 |-> <<>>[i]] /\ ~ \E i \in 1..0 : TRUE
      OBVIOUS
    <2>2. QED
      BY <2>1, ArrIsValue
  <1>2. Value(Nil) /\ Value(Empty) /\ Value(Num(0)) /\ Value(False)
    BY PlainValues
  <1>3. Zero(type) \in {Empty, Num(0), False, Arr(<<>>), Nil}
    BY DEF Zero
  <1>4. QED
    BY <1>1, <1>2, <1>3 DEF Typed

-----------------------------------------------------------------------------
(* A column that is written, row by row.                                   *)
LEMMA FilledStep ==
  ASSUME NEW d, NEW p, NEW type, NEW list, Len(list) \in Nat
  PROVE  /\ Filled(d, p, type, list)[0] = d
         /\ \A k \in 0..Len(list) :
               k + 1 \in 0..Len(list) /\ Filled(d, p, type, list)[k + 1] # Panic =>
                  /\ Filled(d, p, type, list)[k] # Panic
                  /\ Filled(d, p, type, list)[k + 1] =
                        SetIn(Filled(d, p, type, list)[k], Row(p, k), Typed(type, list[k + 1]))
  BY FilledUnfold

(* Filling writes each element at its row, and a later one keeps it.       *)
LEMMA FilledFacts ==
  ASSUME NEW d, Value(d), NEW p \in Ways, InRows(p), NEW type, NEW list, Len(list) \in Nat,
         \A i \in 1..Len(list) : Value(list[i]), NEW n \in 0..Len(list)
  PROVE  LET F == Filled(d, p, type, list)
         IN  F[n] # Panic =>
                /\ Value(F[n]) /\ (n # 0 => IsTree(F[n]))
                /\ \A i \in 1..n : At(F[n], Row(p, i - 1)) = Typed(type, list[i])
  <1> DEFINE F == Filled(d, p, type, list)
             Good(k) == /\ Value(F[k]) /\ (k # 0 => IsTree(F[k]))
                        /\ \A i \in 1..k : At(F[k], Row(p, i - 1)) = Typed(type, list[i])
             S == {k \in Nat : k \in 0..Len(list) /\ F[k] # Panic => Good(k)}
  <1>1. F[0] = d /\ \A k \in 0..Len(list) : k + 1 \in 0..Len(list) /\ F[k + 1] # Panic =>
           F[k] # Panic /\ F[k + 1] = SetIn(F[k], Row(p, k), Typed(type, list[k + 1]))
    BY FilledStep
  <1> HIDE DEF F
  <1>2. 0 \in S
    BY <1>1
  <1>3. ASSUME NEW k \in S PROVE k + 1 \in S
    <2>1. SUFFICES ASSUME k + 1 \in 0..Len(list), F[k + 1] # Panic PROVE Good(k + 1)
      OBVIOUS
    <2>2. k \in Nat /\ k \in 0..Len(list) /\ k + 1 \in 1..Len(list)
      BY <2>1
    <2>3. F[k] # Panic /\ F[k + 1] = SetIn(F[k], Row(p, k), Typed(type, list[k + 1]))
      BY <1>1, <2>1, <2>2
    <2>4. Good(k)
      BY <2>2, <2>3
    <2>5. Row(p, k) \in Plain /\ Row(p, k) # <<>>
      <3>1. p # <<>>
        BY RowFacts
      <3>2. QED
        BY <2>2, <3>1, RowFacts, RowRest
    <2>6. Value(Typed(type, list[k + 1]))
      BY <2>2, TypedFacts
    <2>7. /\ Value(F[k + 1]) /\ IsTree(F[k + 1])
          /\ At(F[k + 1], Row(p, k)) = Typed(type, list[k + 1])
      BY <2>1, <2>3, <2>4, <2>5, <2>6, SetFacts DEF Node
    <2>8. ASSUME NEW i \in 1..(k + 1) PROVE At(F[k + 1], Row(p, i - 1)) = Typed(type, list[i])
      <3>1. CASE i = k + 1
        <4>1. i - 1 = k
          BY <3>1
        <4>2. QED
          BY <2>7, <3>1, <4>1
      <3>2. CASE i # k + 1
        <4>1. i \in 1..k /\ i - 1 \in Nat /\ k # i - 1 /\ i \in 1..Len(list)
          BY <2>2, <3>2
        <4>2. At(F[k], Row(p, i - 1)) = Typed(type, list[i])
          BY <2>4, <4>1
        <4>3. Diverge(Row(p, k), Row(p, i - 1)) /\ Row(p, i - 1) \in Plain
          BY <2>2, <4>1, RowsApart, RowFacts
        <4>4. Typed(type, list[i]) # Missing
          BY <4>1, TypedFacts, ValueFacts
        <4>5. At(F[k + 1], Row(p, i - 1)) = At(F[k], Row(p, i - 1))
          BY <2>1, <2>3, <2>4, <2>5, <2>6, <4>2, <4>3, <4>4, SetApart
        <4>6. QED
          BY <4>2, <4>5
      <3>3. QED
        BY <3>1, <3>2
    <2>9. QED
      BY <2>7, <2>8
  <1>4. S \in SUBSET Nat
    OBVIOUS
  <1> HIDE DEF S
  <1>5. n \in S
    <2>1. n \in Nat
      OBVIOUS
    <2>2. S = Nat
      BY <1>2, <1>3, <1>4, SetInduction
    <2>3. QED
      BY <2>1, <2>2
  <1> USE DEF S
  <1>6. QED
    BY <1>5 DEF F

(* Filling keeps what is read by a path no row goes along with.            *)
LEMMA FilledReads ==
  ASSUME NEW d, Value(d), NEW p \in Ways, InRows(p), NEW type, NEW list, Len(list) \in Nat,
         \A i \in 1..Len(list) : Value(list[i]), NEW q \in Plain, Found(Reads(Json(d), q)),
         \A i \in 1..Len(list) : Diverge(Row(p, i - 1), q) /\ Clear(d, Row(p, i - 1), q),
         NEW n \in 0..Len(list), Filled(d, p, type, list)[n] # Panic
  PROVE  Reads(Json(Filled(d, p, type, list)[n]), q) = Reads(Json(d), q)
  <1> DEFINE F == Filled(d, p, type, list)
             Good(k) == /\ Reads(Json(F[k]), q) = Reads(Json(d), q)
                        /\ \A i \in 1..Len(list) : Clear(F[k], Row(p, i - 1), q)
             S == {k \in Nat : k \in 0..Len(list) /\ F[k] # Panic => Good(k)}
  <1>1. F[0] = d /\ \A k \in 0..Len(list) : k + 1 \in 0..Len(list) /\ F[k + 1] # Panic =>
           F[k] # Panic /\ F[k + 1] = SetIn(F[k], Row(p, k), Typed(type, list[k + 1]))
    <2> HIDE DEF Good, S
    <2>1. F[0] = d
      BY FilledStep
    <2>2. ASSUME NEW k \in 0..Len(list), k + 1 \in 0..Len(list), F[k + 1] # Panic
          PROVE  F[k] # Panic /\ F[k + 1] = SetIn(F[k], Row(p, k), Typed(type, list[k + 1]))
      BY <2>2, FilledStep
    <2>3. QED
      BY <2>1, <2>2
  <1>2. \A k \in 0..Len(list) : F[k] # Panic => Value(F[k])
    BY FilledFacts
  <1> HIDE DEF F
  <1>3. 0 \in S
    BY <1>1
  <1>4. ASSUME NEW k \in S PROVE k + 1 \in S
    <2>1. SUFFICES ASSUME k + 1 \in 0..Len(list), F[k + 1] # Panic PROVE Good(k + 1)
      OBVIOUS
    <2>2. k \in Nat /\ k \in 0..Len(list) /\ k + 1 \in 1..Len(list) /\ (k + 1) - 1 = k
      BY <2>1
    <2>3. F[k] # Panic /\ F[k + 1] = SetIn(F[k], Row(p, k), Typed(type, list[k + 1]))
      BY <1>1, <2>1, <2>2
    <2>4. Good(k) /\ Value(F[k])
      BY <1>2, <2>2, <2>3
    <2>5. Row(p, k) \in Plain /\ Diverge(Row(p, k), q) /\ Clear(F[k], Row(p, k), q)
      <3>1. Diverge(Row(p, (k + 1) - 1), q) /\ Clear(F[k], Row(p, (k + 1) - 1), q)
        BY <2>2, <2>4
      <3>2. QED
        BY <2>2, <3>1, RowFacts
    <2>6. Value(Typed(type, list[k + 1]))
      BY <2>2, TypedFacts
    <2>7. /\ Reads(Json(F[k + 1]), q) = Reads(Json(F[k]), q)
          /\ \A m \in 1..Len(q) : IsString(Walks(Json(F[k + 1]), q)[m]) =>
                                     IsString(Walks(Json(F[k]), q)[m])
      <3>1. Found(Reads(Json(F[k]), q))
        BY <2>4
      <3>2. QED
        BY <2>1, <2>3, <2>4, <2>5, <2>6, <3>1, ReadsApart
    <2>10. ~IsString(F[k + 1])
      <3>1. Row(p, k) # <<>>
        BY <2>5, ApartRest
      <3>2. IsTree(F[k + 1])
        BY <2>1, <2>3, <2>4, <2>5, <2>6, <3>1, SetFacts DEF Node
      <3>3. QED
        BY <3>2 DEF IsTree, IsString
    <2>8. \A i \in 1..Len(list) : Clear(F[k + 1], Row(p, i - 1), q)
      BY <2>4, <2>7, <2>10 DEF Clear
    <2>9. QED
      BY <2>4, <2>7, <2>8
  <1>5. S \in SUBSET Nat
    OBVIOUS
  <1> HIDE DEF S
  <1>6. n \in S
    <2>1. n \in Nat
      OBVIOUS
    <2>2. S = Nat
      BY <1>3, <1>4, <1>5, SetInduction
    <2>3. QED
      BY <2>1, <2>2
  <1> USE DEF S
  <1>7. QED
    BY <1>6 DEF F

(* What Add2json leaves is a value, an object or array where anything was  *)
(* written at a path.                                                      *)
LEMMA Add2jsonType ==
  ASSUME NEW d, Value(d), NEW p \in Ways, p # <<>>, NEW type, NEW v, Value(v),
         Add2json(d, p, type, v) # Panic
  PROVE  /\ Value(Add2json(d, p, type, v))
         /\ Add2json(d, p, type, v) = d \/ IsTree(Add2json(d, p, type, v))
  <1>1. CASE ~InRows(p)
    <2>1. p \in Plain /\ Value(Typed(type, v))
      BY <1>1, RowFacts, TypedFacts
    <2>2. Add2json(d, p, type, v) = SetIn(d, p, Typed(type, v))
      BY <1>1 DEF Add2json
    <2>3. QED
      BY <2>1, <2>2, SetFacts DEF Node
  <1>2. CASE InRows(p) /\ v = Nil
    BY <1>2 DEF Add2json, Nil
  <1>3. CASE InRows(p) /\ v # Nil
    <2>1. v.kind = "arr" /\ Add2json(d, p, type, v) = Filled(d, p, type, v.e)[Len(v.e)]
      BY <1>3 DEF Add2json, Nil
    <2>2. Len(v.e) \in Nat /\ \A i \in 1..Len(v.e) : Value(v.e[i])
      BY <2>1, Elements
    <2>3. Len(v.e) \in 0..Len(v.e)
      BY <2>2
    <2>4. CASE Len(v.e) # 0
      BY <1>3, <2>1, <2>2, <2>3, <2>4, FilledFacts
    <2>5. CASE Len(v.e) = 0
      BY <2>1, <2>2, <2>5, FilledStep
    <2>6. QED
      BY <2>4, <2>5
  <1>4. QED
    BY <1>1, <1>2, <1>3

-----------------------------------------------------------------------------
(* Below what is missing everything is.                                    *)
LEMMA WalkMissing ==
  ASSUME NEW p \in Ways
  PROVE  Walk(Missing, p) = Missing
  <1> DEFINE n == Len(p)
             S == {k \in Nat : k \in 0..n => Walks(Missing, p)[k] = Missing}
  <1>1. n \in Nat
    BY LenProperties DEF Ways
  <1>2. Walks(Missing, p)[0] = Missing /\ \A k \in 0..n : k + 1 \in 0..n =>
           Walks(Missing, p)[k + 1] = Child(Unwrapped(Walks(Missing, p)[k]), p[k + 1])
    BY WalksUnfold, <1>1
  <1>3. \A s : Child(Unwrapped(Missing), s) = Missing
    BY DEF Child, Unwrapped, Missing
  <1> HIDE DEF n
  <1>4. 0 \in S
    BY <1>2
  <1>5. ASSUME NEW k \in S PROVE k + 1 \in S
    <2>1. SUFFICES ASSUME k + 1 \in 0..n PROVE Walks(Missing, p)[k + 1] = Missing
      OBVIOUS
    <2>2. k \in 0..n
      BY <1>1, <2>1
    <2>3. Walks(Missing, p)[k + 1] = Child(Unwrapped(Missing), p[k + 1])
      BY <1>2, <2>1, <2>2
    <2>4. QED
      BY <1>3, <2>3
  <1>6. S \in SUBSET Nat
    OBVIOUS
  <1> HIDE DEF S
  <1>7. n \in S
    BY <1>1, <1>4, <1>5, <1>6, SetInduction
  <1> USE DEF S
  <1>8. QED
    BY <1>1, <1>7 DEF Walk, n

(* A walk along two paths is one as long as the paths are.                 *)
LEMMA WalksShared ==
  ASSUME NEW v, NEW p \in Ways, NEW q \in Ways, NEW k \in Nat, k <= Len(p), k <= Len(q),
         \A j \in 1..k : p[j] = q[j]
  PROVE  Walks(v, p)[k] = Walks(v, q)[k]
  <1> DEFINE m == Len(p)
             n == Len(q)
             S == {i \in Nat : i <= k => Walks(v, p)[i] = Walks(v, q)[i]}
  <1>1. m \in Nat /\ n \in Nat /\ k <= m /\ k <= n
    BY LenProperties DEF Ways
  <1>2. Walks(v, p)[0] = v /\ \A i \in 0..m : i + 1 \in 0..m =>
           Walks(v, p)[i + 1] = Child(Unwrapped(Walks(v, p)[i]), p[i + 1])
    BY WalksUnfold, <1>1
  <1>3. Walks(v, q)[0] = v /\ \A i \in 0..n : i + 1 \in 0..n =>
           Walks(v, q)[i + 1] = Child(Unwrapped(Walks(v, q)[i]), q[i + 1])
    BY WalksUnfold, <1>1
  <1> HIDE DEF m, n
  <1>4. 0 \in S
    BY <1>2, <1>3
  <1>5. ASSUME NEW i \in S PROVE i + 1 \in S
    <2>1. SUFFICES ASSUME i + 1 <= k PROVE Walks(v, p)[i + 1] = Walks(v, q)[i + 1]
      OBVIOUS
    <2>2. i \in Nat /\ i \in 0..m /\ i + 1 \in 0..m /\ i \in 0..n /\ i + 1 \in 0..n
          /\ i + 1 \in 1..k /\ i <= k
      BY <1>1, <2>1
    <2>3. Walks(v, p)[i] = Walks(v, q)[i] /\ p[i + 1] = q[i + 1]
      BY <2>2
    <2>4. Walks(v, p)[i + 1] = Child(Unwrapped(Walks(v, p)[i]), p[i + 1])
      BY <1>2, <2>2
    <2>5. Walks(v, q)[i + 1] = Child(Unwrapped(Walks(v, q)[i]), q[i + 1])
      BY <1>3, <2>2
    <2>6. QED
      BY <2>3, <2>4, <2>5
  <1>6. S \in SUBSET Nat
    OBVIOUS
  <1> HIDE DEF S
  <1>7. k \in S
    BY <1>4, <1>5, <1>6, SetInduction
  <1> USE DEF S
  <1>8. QED
    BY <1>7

(* A list at the rows of a path: its first L elements are found there.     *)
AtRows(d, p, L, list) ==
    \A i \in 1..L : list[i] # Missing /\ At(d, Row(p, i - 1)) = list[i]

(* A path with one #, at n.                                                *)
Columned(p, n) ==
    /\ n \in 1..(Len(p) - 1) /\ p[n] = Each
    /\ \A m \in 1..Len(p) : m # n => p[m] # Each

(* The path is read as an array that starts with the list.                 *)
StartsWith(v, L, list) ==
    /\ v.kind = "arr" /\ Len(v.e) \in Nat /\ L <= Len(v.e)
    /\ \A i \in 1..L : v.e[i] = list[i]

(* A column, with the # first in the path.                                 *)
LEMMA ColumnHere ==
  ASSUME NEW p \in Ways, Columned(p, 1), NEW x, Value(x), Unwrapped(x).kind = "arr",
         NEW L \in Nat, NEW list, AtRows(Unwrapped(x), p, L, list)
  PROVE  StartsWith(Reads(x, p), L, list)
  <1> DEFINE d == Unwrapped(x)
             q == Tail(p)
             found == [i \in 1..Len(d.e) |-> At(d.e[i], q)]
  <1>1. p # <<>> /\ p[1] = Each /\ Len(p) \in Nat /\ Len(p) >= 2
    BY LenProperties, EmptySeq DEF Columned, Ways
  <1>2. q \in Ways /\ q # <<>> /\ Len(q) = Len(p) - 1
        /\ \A k \in 1..Len(q) : q[k] = p[k + 1]
    <2>1. q \in Ways /\ Len(q) = Len(p) - 1 /\ \A k \in 1..Len(q) : q[k] = p[k + 1]
      BY <1>1, Rest DEF Ways
    <2> HIDE DEF q
    <2>2. q # <<>>
      BY <1>1, <2>1, PathsAreWays
    <2>3. QED
      BY <2>1, <2>2
  <1>3. ~InRows(q)
    <2>1. ASSUME NEW k \in 1..Len(q) PROVE q[k] # Each
      <3>1. k + 1 \in 1..Len(p) /\ k + 1 # 1 /\ q[k] = p[k + 1]
        BY <1>1, <1>2
      <3>2. QED
        BY <3>1 DEF Columned
    <2>2. InRows(q) <=> \E k \in 1..Len(q) : q[k] = Each
      BY <1>2, RowFacts
    <2>3. QED
      BY <2>1, <2>2
  <1>4. Value(d) /\ Len(d.e) \in Nat /\ \A i \in 1..Len(d.e) : Value(d.e[i])
    BY UnwrappedFacts, Elements
  <1>5. Reads(x, p) = Arr(FoundIn(found))
    <2>1. Reads(x, p) = At(d, p)
      BY <1>1, <1>2, ReadsColumn
    <2>2. QED
      BY <1>1, <1>2, <1>4, <2>1, AtStep
  <1>6. Results(found, Len(d.e))
    <2>1. \A i \in 1..Len(d.e) : Node(At(d.e[i], q))
      BY <1>2, <1>4, AtType
    <2> HIDE DEF d, q
    <2>2. QED
      BY <2>1 DEF Results
  <1>7. ASSUME NEW i \in 1..L PROVE i \in 1..Len(d.e) /\ found[i] = list[i] /\ list[i] # Missing
    <2> DEFINE r == Row(p, i - 1)
    <2>1. i - 1 \in Nat
      OBVIOUS
    <2>2. At(d, r) = list[i] /\ list[i] # Missing
      BY DEF AtRows
    <2>3. r \in Ways /\ r # <<>> /\ r[1] = i - 1 /\ r[1] # Each /\ Tail(r) = q
      <3>1. r \in Plain /\ r[1] = i - 1 /\ r # <<>> /\ Tail(r) = Row(q, i - 1)
        <4>1. 1 \in 1..Len(p)
          BY <1>1
        <4>2. QED
          BY <1>1, <2>1, <4>1, RowFacts, RowRest
      <3>2. Row(q, i - 1) = q
        BY <1>2, <1>3, <2>1, RowFacts
      <3>3. i - 1 # Each
        BY <2>1, NamesAssumption DEF Segs
      <3> HIDE DEF r, q
      <3>4. QED
        BY <3>1, <3>2, <3>3, PlainWays
    <2> HIDE DEF r, q, d
    <2>4. Child(d, i - 1) # Missing /\ At(Child(d, i - 1), q) = list[i]
      <3>1. Child(d, r[1]) # Missing
        BY <1>4, <2>2, <2>3, AtStep
      <3>2. At(d, r) = At(Child(d, r[1]), Tail(r))
        BY <1>4, <2>3, <3>1, AtStep
      <3>3. QED
        BY <2>2, <2>3, <3>1, <3>2
    <2>5. d.kind = "arr"
      BY DEF d
    <2>6. i - 1 < Len(d.e) /\ Child(d, i - 1) = d.e[(i - 1) + 1]
      BY <2>1, <2>4, <2>5 DEF Child
    <2>7. i \in 1..Len(d.e) /\ (i - 1) + 1 = i
      BY <1>4, <2>6
    <2>8. QED
      BY <2>2, <2>4, <2>6, <2>7
  <1> HIDE DEF found, d, q
  <1>8. L \in 0..Len(d.e)
    BY <1>4, <1>7
  <1>9. /\ Len(FoundIn(found)) \in Nat /\ L <= Len(FoundIn(found))
        /\ \A i \in 1..L : FoundIn(found)[i] = list[i]
    <2>1. \A i \in 1..L : found[i] # Missing
      BY <1>7
    <2>2. /\ Len(FoundIn(found)) \in Nat /\ L <= Len(FoundIn(found))
          /\ \A i \in 1..L : FoundIn(found)[i] = found[i]
      BY <1>4, <1>6, <1>8, <2>1, FoundFacts
    <2>3. QED
      BY <1>7, <2>2
  <1>10. QED
    BY <1>5, <1>9 DEF StartsWith, Arr

-----------------------------------------------------------------------------
(* Wherever the # is in the path.                                          *)
LEMMA ColumnBelow ==
  ASSUME NEW n \in Nat,
         \A q \in Ways : \A c : \A M \in Nat : \A list :
            /\ Columned(q, n) /\ Value(c)
            /\ Unwrapped(Walk(c, SubSeq(q, 1, n - 1))).kind = "arr"
            /\ AtRows(Unwrapped(c), q, M, list)
            => StartsWith(Reads(c, q), M, list),
         n >= 1,
         NEW p \in Ways, Columned(p, n + 1), NEW x, Value(x),
         Unwrapped(Walk(x, SubSeq(p, 1, n))).kind = "arr",
         NEW L \in Nat, NEW list, AtRows(Unwrapped(x), p, L, list)
  PROVE  StartsWith(Reads(x, p), L, list)
  <1> DEFINE d == Unwrapped(x)
             q == Tail(p)
             c == Child(d, p[1])
  <1>1. p # <<>> /\ p[1] # Each /\ p[1] \in Segs /\ Len(p) \in Nat /\ n \in 1..Len(p)
    <2>1. Len(p) \in Nat /\ n + 1 <= Len(p) - 1 /\ \A m \in 1..Len(p) : m # n + 1 => p[m] # Each
      BY LenProperties DEF Columned, Ways
    <2>2. 1 \in 1..Len(p) /\ 1 # n + 1 /\ n \in 1..Len(p)
      BY <2>1
    <2>3. p # <<>>
      BY <2>1, <2>2, PathsAreWays
    <2>4. p[1] \in Segs \cup {Each}
      BY <2>3, Rest DEF Ways
    <2>5. QED
      BY <2>1, <2>2, <2>3, <2>4
  <1>2. q \in Ways /\ Len(q) = Len(p) - 1 /\ \A k \in 1..Len(q) : q[k] = p[k + 1]
    BY <1>1, Rest DEF Ways
  <1> HIDE DEF q
  <1>3. Columned(q, n)
    <2>1. n \in 1..(Len(q) - 1) /\ n \in 1..Len(q)
      BY <1>1, <1>2 DEF Columned
    <2>2. q[n] = Each
      BY <1>2, <2>1 DEF Columned
    <2>3. ASSUME NEW m \in 1..Len(q), m # n PROVE q[m] # Each
      <3>1. m + 1 \in 1..Len(p) /\ m + 1 # n + 1 /\ q[m] = p[m + 1]
        BY <1>1, <1>2, <2>3
      <3>2. QED
        BY <3>1 DEF Columned
    <2>4. QED
      BY <2>1, <2>2, <2>3 DEF Columned
  <1>4. Walk(x, SubSeq(p, 1, n)) = Walk(c, SubSeq(q, 1, n - 1))
    <2>1. /\ SubSeq(p, 1, n) \in Ways /\ SubSeq(p, 1, n) # <<>>
          /\ SubSeq(p, 1, n)[1] = p[1] /\ Tail(SubSeq(p, 1, n)) = SubSeq(q, 1, n - 1)
      BY <1>1, Parts DEF q
    <2>2. QED
      BY <2>1, WalkStep
  <1>5. c # Missing
    <2>1. SUFFICES ASSUME c = Missing PROVE FALSE
      OBVIOUS
    <2>2. SubSeq(q, 1, n - 1) \in Ways
      <3>1. CASE n = 1
        <4>1. SubSeq(q, 1, n - 1) = <<>>
          BY <3>1, <1>2, SubSeqProperties DEF Ways
        <4>2. QED
          BY <4>1, EmptySeq DEF Ways
      <3>2. CASE n # 1
        <4>1. n - 1 \in 1..Len(q) /\ q # <<>>
          BY <1>1, <1>2, <3>2, PathsAreWays
        <4>2. QED
          BY <1>2, <4>1, Parts
      <3>3. QED
        BY <3>1, <3>2
    <2>3. Walk(x, SubSeq(p, 1, n)) = Missing
      BY <1>4, <2>1, <2>2, WalkMissing
    <2>4. QED
      BY <2>3 DEF Unwrapped, Missing
  <1>6. x.kind # "text"
    BY <1>5 DEF Unwrapped, Child
  <1>7. Value(c) /\ Reads(x, p) = Reads(c, q)
    BY <1>1, <1>5, <1>6, ReadsStep DEF q
  <1>8. AtRows(Unwrapped(c), q, L, list)
    <2>1. SUFFICES ASSUME NEW i \in 1..L
                   PROVE  list[i] # Missing /\ At(Unwrapped(c), Row(q, i - 1)) = list[i]
      BY DEF AtRows
    <2> DEFINE r == Row(p, i - 1)
    <2>2. list[i] # Missing /\ At(d, r) = list[i]
      BY DEF AtRows
    <2>3. i - 1 \in Nat /\ 1 \in 1..Len(p)
      BY <1>1
    <2>4. r \in Ways /\ r # <<>> /\ r[1] = p[1] /\ Tail(r) = Row(q, i - 1)
      BY <1>1, <2>3, RowFacts, RowRest, PlainWays DEF q
    <2>5. Row(q, i - 1) \in Ways /\ Row(q, i - 1) # <<>>
      <3>1. Row(q, i - 1) \in Plain /\ Len(Row(q, i - 1)) = Len(q)
        BY <1>2, <2>3, RowFacts
      <3>2. Len(Row(q, i - 1)) # 0
        BY <1>1, <1>2, <1>3, <3>1 DEF Columned
      <3>3. QED
        BY <3>1, <3>2, PlainWays, PathsAreWays
    <2>6. Value(d)
      BY UnwrappedFacts
    <2> HIDE DEF r, d, c
    <2>7. At(d, r) = At(c, Row(q, i - 1))
      BY <1>1, <1>5, <2>4, <2>6, AtStep DEF c
    <2>8. IsTree(c)
      BY <1>7, <2>2, <2>5, <2>7, AtNoTree
    <2>9. QED
      BY <1>7, <2>2, <2>7, <2>8, UnwrappedFacts DEF IsTree, IsString
  <1> HIDE DEF d, c
  <1>9. Unwrapped(Walk(c, SubSeq(q, 1, n - 1))).kind = "arr"
    BY <1>4
  <1>10. StartsWith(Reads(c, q), L, list)
    BY <1>2, <1>3, <1>7, <1>8, <1>9
  <1>11. QED
    BY <1>7, <1>10

(* A column, read with # through the array of gjson.Get, starts with what  *)
(* is found at its rows one by one, where a list was written.              *)
THEOREM Column ==
  ASSUME NEW m \in Nat, NEW p \in Ways, Columned(p, m), NEW x, Value(x),
         Unwrapped(Walk(x, SubSeq(p, 1, m - 1))).kind = "arr",
         NEW L \in Nat, NEW list, AtRows(Unwrapped(x), p, L, list)
  PROVE  StartsWith(Reads(x, p), L, list)
  <1> DEFINE Good(n) == \A r \in Ways : \A c : \A M \in Nat : \A li :
                           /\ Columned(r, n) /\ Value(c)
                           /\ Unwrapped(Walk(c, SubSeq(r, 1, n - 1))).kind = "arr"
                           /\ AtRows(Unwrapped(c), r, M, li)
                           => StartsWith(Reads(c, r), M, li)
             S == {n \in Nat : Good(n)}
  <1>1. 0 \in S
    BY DEF Columned
  <1>2. ASSUME NEW n \in S PROVE n + 1 \in S
    <2>1. n \in Nat /\ n + 1 \in Nat /\ Good(n) /\ (n + 1) - 1 = n
      OBVIOUS
    <2>2. SUFFICES ASSUME NEW r \in Ways, NEW c, NEW M \in Nat, NEW li,
                          Columned(r, n + 1), Value(c),
                          Unwrapped(Walk(c, SubSeq(r, 1, n))).kind = "arr",
                          AtRows(Unwrapped(c), r, M, li)
                   PROVE  StartsWith(Reads(c, r), M, li)
      BY <2>1
    <2>3. CASE n = 0
      <3>1. Columned(r, 1)
        BY <2>2, <2>3
      <3>2. SubSeq(r, 1, n) = <<>>
        BY <2>3, SubSeqProperties DEF Ways
      <3>3. Unwrapped(c).kind = "arr"
        BY <2>2, <3>2, WalkEmpty
      <3>4. QED
        BY <2>2, <3>1, <3>3, ColumnHere
    <2>4. CASE n # 0
      <3>1. n >= 1
        BY <2>1, <2>4
      <3>2. QED
        BY <2>1, <2>2, <3>1, ColumnBelow
    <2>5. QED
      BY <2>3, <2>4
  <1>3. S \in SUBSET Nat
    OBVIOUS
  <1> HIDE DEF S
  <1>4. m \in S
    BY <1>1, <1>2, <1>3, SetInduction
  <1> USE DEF S
  <1>5. QED
    BY <1>4

-----------------------------------------------------------------------------
(* A sequence cut in two, behind its first n.                              *)
LEMMA Cuts ==
  ASSUME NEW X, NEW p \in Seq(X), NEW n \in 0..Len(p)
  PROVE  /\ Len(p) \in Nat
         /\ SubSeq(p, 1, n) \in Seq(X) /\ Len(SubSeq(p, 1, n)) = n
         /\ \A i \in 1..n : SubSeq(p, 1, n)[i] = p[i]
         /\ SubSeq(p, n + 1, Len(p)) \in Seq(X) /\ Len(SubSeq(p, n + 1, Len(p))) = Len(p) - n
         /\ \A i \in 1..(Len(p) - n) : SubSeq(p, n + 1, Len(p))[i] = p[n + i]
  <1>1. Len(p) \in Nat /\ n \in Nat /\ n <= Len(p) /\ \A i \in 1..Len(p) : p[i] \in X
    BY LenProperties, ElementOfSeq
  <1>2. /\ SubSeq(p, 1, n) \in Seq(X) /\ Len(SubSeq(p, 1, n)) = n
        /\ \A i \in 1..n : SubSeq(p, 1, n)[i] = p[i]
    <2>1. \A i \in 1..n : p[i] \in X
      BY <1>1
    <2>2. /\ SubSeq(p, 1, n) \in Seq(X) /\ Len(SubSeq(p, 1, n)) = (IF 1 <= n THEN n - 1 + 1 ELSE 0)
          /\ \A i \in 1..(n - 1 + 1) : SubSeq(p, 1, n)[i] = p[1 + i - 1]
      BY <1>1, <2>1, SubSeqProperties
    <2>3. n - 1 + 1 = n /\ (~(1 <= n) => n = 0) /\ \A i \in 1..n : 1 + i - 1 = i
      BY <1>1
    <2>4. QED
      BY <2>2, <2>3
  <1>3. /\ SubSeq(p, n + 1, Len(p)) \in Seq(X) /\ Len(SubSeq(p, n + 1, Len(p))) = Len(p) - n
        /\ \A i \in 1..(Len(p) - n) : SubSeq(p, n + 1, Len(p))[i] = p[n + i]
    <2>1. \A i \in (n + 1)..Len(p) : p[i] \in X
      BY <1>1
    <2>2. /\ SubSeq(p, n + 1, Len(p)) \in Seq(X)
          /\ Len(SubSeq(p, n + 1, Len(p))) = (IF n + 1 <= Len(p) THEN Len(p) - (n + 1) + 1 ELSE 0)
          /\ \A i \in 1..(Len(p) - (n + 1) + 1) : SubSeq(p, n + 1, Len(p))[i] = p[(n + 1) + i - 1]
      BY <1>1, <2>1, SubSeqProperties
    <2>3. Len(p) - (n + 1) + 1 = Len(p) - n /\ (~(n + 1 <= Len(p)) => Len(p) - n = 0)
          /\ \A i \in 1..(Len(p) - n) : (n + 1) + i - 1 = n + i
      BY <1>1
    <2>4. QED
      BY <2>2, <2>3
  <1>4. QED
    BY <1>1, <1>2, <1>3

(* The parts of a path without #, and of its rest.                         *)
LEMMA PlainCuts ==
  ASSUME NEW p \in Plain, NEW n \in 0..Len(p)
  PROVE  /\ SubSeq(p, 1, n) \in Plain /\ SubSeq(p, n + 1, Len(p)) \in Plain
         /\ n = 0 => SubSeq(p, 1, n) = <<>> /\ SubSeq(p, n + 1, Len(p)) = p
         /\ n # 0 => /\ p # <<>> /\ n - 1 \in 0..Len(Tail(p))
                     /\ SubSeq(p, 1, n) # <<>> /\ SubSeq(p, 1, n)[1] = p[1]
                     /\ Tail(SubSeq(p, 1, n)) = SubSeq(Tail(p), 1, n - 1)
                     /\ SubSeq(p, n + 1, Len(p)) = SubSeq(Tail(p), (n - 1) + 1, Len(Tail(p)))
  <1>1. SubSeq(p, 1, n) \in Plain /\ SubSeq(p, n + 1, Len(p)) \in Plain /\ Len(p) \in Nat
    BY Cuts DEF Plain
  <1>2. ASSUME n = 0 PROVE SubSeq(p, 1, n) = <<>> /\ SubSeq(p, n + 1, Len(p)) = p
    <2>1. Len(SubSeq(p, 1, n)) = 0
      BY <1>2, Cuts DEF Plain
    <2>2. SubSeq(p, 1, n) = <<>>
      <3>1. PICK a : a = SubSeq(p, 1, n)
        OBVIOUS
      <3>2. a \in Seq(Segs) /\ Len(a) = 0
        BY <1>1, <2>1, <3>1 DEF Plain
      <3>3. a = <<>>
        BY <3>2, EmptySeq
      <3>4. QED
        BY <3>1, <3>3
    <2>3. SubSeq(p, n + 1, Len(p)) = p
      <3>1. PICK a : a = SubSeq(p, n + 1, Len(p))
        OBVIOUS
      <3>2. a \in Seq(Segs) /\ Len(a) = Len(p) - n /\ \A i \in 1..(Len(p) - n) : a[i] = p[n + i]
        BY <3>1, Cuts DEF Plain
      <3>3. Len(a) = Len(p) /\ \A i \in 1..Len(a) : a[i] = p[i]
        BY <1>1, <1>2, <3>2
      <3>4. a = p
        BY <3>2, <3>3, SeqEqual DEF Plain
      <3>5. QED
        BY <3>1, <3>4
    <2>4. QED
      BY <2>2, <2>3
  <1>3. ASSUME n # 0
        PROVE  /\ p # <<>> /\ n - 1 \in 0..Len(Tail(p))
               /\ SubSeq(p, 1, n) # <<>> /\ SubSeq(p, 1, n)[1] = p[1]
               /\ Tail(SubSeq(p, 1, n)) = SubSeq(Tail(p), 1, n - 1)
               /\ SubSeq(p, n + 1, Len(p)) = SubSeq(Tail(p), (n - 1) + 1, Len(Tail(p)))
    <2>1. p \in Ways /\ n \in 1..Len(p) /\ p # <<>>
      BY <1>1, <1>3, PlainWays, EmptySeq
    <2>2. Len(Tail(p)) = Len(p) - 1
      BY <2>1, Rest DEF Ways
    <2>3. n - 1 \in 0..Len(Tail(p)) /\ (n - 1) + 1 = n
      BY <1>1, <2>1, <2>2
    <2>4. QED
      BY <2>1, <2>3, Parts
  <1>4. QED
    BY <1>1, <1>2, <1>3

LEMMA NextCut ==
  ASSUME NEW p \in Plain, NEW m \in Nat, m + 1 \in 0..Len(p)
  PROVE  /\ p # <<>> /\ m \in 0..Len(Tail(p))
         /\ SubSeq(p, 1, m + 1) \in Plain /\ SubSeq(p, 1, m + 1) # <<>>
         /\ SubSeq(p, 1, m + 1)[1] = p[1]
         /\ Tail(SubSeq(p, 1, m + 1)) = SubSeq(Tail(p), 1, m)
         /\ SubSeq(p, (m + 1) + 1, Len(p)) = SubSeq(Tail(p), m + 1, Len(Tail(p)))
  <1>1. PICK n : n = m + 1
    OBVIOUS
  <1>2. n \in 0..Len(p) /\ n # 0 /\ n - 1 = m
    BY <1>1
  <1>3. /\ p # <<>> /\ n - 1 \in 0..Len(Tail(p))
        /\ SubSeq(p, 1, n) \in Plain /\ SubSeq(p, 1, n) # <<>>
        /\ SubSeq(p, 1, n)[1] = p[1]
        /\ Tail(SubSeq(p, 1, n)) = SubSeq(Tail(p), 1, n - 1)
        /\ SubSeq(p, n + 1, Len(p)) = SubSeq(Tail(p), (n - 1) + 1, Len(Tail(p)))
    BY <1>2, PlainCuts
  <1>4. QED
    BY <1>1, <1>2, <1>3

-----------------------------------------------------------------------------
(* Nothing is found where nothing is.                                      *)
LEMMA AtMissing ==
  ASSUME NEW p \in Plain
  PROVE  At(Missing, p) = Missing
  <1>1. CASE p = <<>>
    BY <1>1, AtEmpty
  <1>2. CASE p # <<>>
    <2>1. p \in Ways /\ Len(p) \in Nat /\ Len(p) >= 1 /\ p[1] # Each
      BY <1>2, PlainWays, Rest DEF Plain
    <2>2. PICK k : k = Len(p) - 1
      OBVIOUS
    <2>3. k \in 0..Len(p) /\ k + 1 = Len(p) /\ k + 1 \in 0..Len(p) /\ Len(p) - (k + 1) = 0 /\ Len(p) - k = 1
      BY <2>1, <2>2
    <2>4. Levels(Missing, Len(p))[0] = {Missing}
      BY <2>1, LevelsAt
    <2>5. Lookups(Missing, p)[k + 1][Missing] = Step(Missing, p[1], Lookups(Missing, p)[k], k # 0)
      <3>1. \A x \in Levels(Missing, Len(p))[Len(p) - (k + 1)] :
               Lookups(Missing, p)[k + 1][x] = Step(x, p[Len(p) - k], Lookups(Missing, p)[k], k # 0)
        BY <2>1, <2>3, LookupsAt
      <3>2. QED
        BY <2>3, <2>4, <3>1
    <2>6. Child(Missing, p[1]) = Missing
      BY DEF Child, Missing
    <2>7. QED
      BY <2>1, <2>3, <2>5, <2>6 DEF At, Step
  <1>3. QED
    BY <1>1, <1>2

(* The first step of a lookup.                                             *)
LEMMA NodeStep ==
  ASSUME NEW d, Node(d), NEW p \in Plain, p # <<>>
  PROVE  At(d, p) = At(Child(d, p[1]), Tail(p)) /\ Node(Child(d, p[1])) /\ Tail(p) \in Plain
  <1>1. p \in Ways /\ p[1] # Each /\ Tail(p) \in Plain
    BY PlainWays
  <1>2. Node(Child(d, p[1]))
    BY NodeFacts
  <1>3. At(d, p) = At(Child(d, p[1]), Tail(p))
    <2>1. CASE Child(d, p[1]) = Missing
      <3>1. At(d, p) = Missing
        BY <1>1, <2>1, AtStep, AtMissing DEF Node
      <3>2. QED
        BY <1>1, <2>1, <3>1, AtMissing
    <2>2. CASE Child(d, p[1]) # Missing
      <3>1. Value(d)
        BY <2>2 DEF Node, Child, Missing
      <3>2. QED
        BY <1>1, <2>2, <3>1, AtStep
    <2>3. QED
      BY <2>1, <2>2
  <1>4. QED
    BY <1>1, <1>2, <1>3

(* Looking up along a path is looking up along its first n segments, and   *)
(* from there on.                                                          *)
LEMMA AtSplit ==
  ASSUME NEW d, Node(d), NEW p \in Plain, NEW n \in 0..Len(p)
  PROVE  /\ Node(At(d, SubSeq(p, 1, n)))
         /\ At(d, p) = At(At(d, SubSeq(p, 1, n)), SubSeq(p, n + 1, Len(p)))
  <1> DEFINE S == {m \in Nat : \A c : \A r \in Plain : Node(c) /\ m \in 0..Len(r) =>
                     /\ Node(At(c, SubSeq(r, 1, m)))
                     /\ At(c, r) = At(At(c, SubSeq(r, 1, m)), SubSeq(r, m + 1, Len(r)))}
  <1>1. 0 \in S
    <2>1. SUFFICES ASSUME NEW c, NEW r \in Plain, Node(c), 0 \in 0..Len(r)
                   PROVE  /\ Node(At(c, SubSeq(r, 1, 0)))
                          /\ At(c, r) = At(At(c, SubSeq(r, 1, 0)), SubSeq(r, 0 + 1, Len(r)))
      OBVIOUS
    <2>2. SubSeq(r, 1, 0) = <<>> /\ SubSeq(r, 0 + 1, Len(r)) = r
      BY <2>1, PlainCuts
    <2>3. QED
      BY <2>1, <2>2, AtEmpty
  <1>2. ASSUME NEW m \in S PROVE m + 1 \in S
    <2>1. SUFFICES ASSUME NEW c, NEW r \in Plain, Node(c), m + 1 \in 0..Len(r)
                   PROVE  /\ Node(At(c, SubSeq(r, 1, m + 1)))
                          /\ At(c, r) = At(At(c, SubSeq(r, 1, m + 1)), SubSeq(r, (m + 1) + 1, Len(r)))
      OBVIOUS
    <2>2. m \in Nat /\ m + 1 # 0 /\ (m + 1) - 1 = m
      OBVIOUS
    <2> DEFINE h == SubSeq(r, 1, m + 1)
               t == SubSeq(r, (m + 1) + 1, Len(r))
    <2>3. /\ r # <<>> /\ m \in 0..Len(Tail(r)) /\ h \in Plain /\ h # <<>> /\ h[1] = r[1]
          /\ Tail(h) = SubSeq(Tail(r), 1, m) /\ t = SubSeq(Tail(r), m + 1, Len(Tail(r)))
      BY <2>1, <2>2, NextCut
    <2> HIDE DEF h, t
    <2>4. At(c, r) = At(Child(c, r[1]), Tail(r)) /\ Node(Child(c, r[1])) /\ Tail(r) \in Plain
      BY <2>1, <2>3, NodeStep
    <2>5. At(c, h) = At(Child(c, r[1]), SubSeq(Tail(r), 1, m))
      BY <2>1, <2>3, NodeStep
    <2>6. /\ Node(At(Child(c, r[1]), SubSeq(Tail(r), 1, m)))
          /\ At(Child(c, r[1]), Tail(r)) =
                At(At(Child(c, r[1]), SubSeq(Tail(r), 1, m)), SubSeq(Tail(r), m + 1, Len(Tail(r))))
      BY <2>3, <2>4
    <2>7. QED
      BY <2>3, <2>4, <2>5, <2>6 DEF h, t
  <1>3. S \in SUBSET Nat
    OBVIOUS
  <1> HIDE DEF S
  <1>4. n \in S
    <2>1. n \in Nat
      BY PlainWays
    <2>2. S = Nat
      BY <1>1, <1>2, <1>3, SetInduction
    <2>3. QED
      BY <2>1, <2>2
  <1> USE DEF S
  <1>5. QED
    BY <1>4

(* What is set at a path is set, along the rest of it, in what its first n *)
(* segments lead to.                                                       *)
LEMMA SetSplit ==
  ASSUME NEW d, Node(d), NEW p \in Plain, NEW n \in 0..Len(p), NEW v, Value(v), SetIn(d, p, v) # Panic
  PROVE  /\ SetIn(At(d, SubSeq(p, 1, n)), SubSeq(p, n + 1, Len(p)), v) # Panic
         /\ At(SetIn(d, p, v), SubSeq(p, 1, n)) =
               SetIn(At(d, SubSeq(p, 1, n)), SubSeq(p, n + 1, Len(p)), v)
  <1> DEFINE Good(c, r, m) ==
                /\ SetIn(At(c, SubSeq(r, 1, m)), SubSeq(r, m + 1, Len(r)), v) # Panic
                /\ At(SetIn(c, r, v), SubSeq(r, 1, m)) =
                      SetIn(At(c, SubSeq(r, 1, m)), SubSeq(r, m + 1, Len(r)), v)
             S == {m \in Nat : \A c : \A r \in Plain :
                     Node(c) /\ m \in 0..Len(r) /\ SetIn(c, r, v) # Panic => Good(c, r, m)}
  <1>1. 0 \in S
    <2>1. SUFFICES ASSUME NEW c, NEW r \in Plain, Node(c), 0 \in 0..Len(r), SetIn(c, r, v) # Panic
                   PROVE  Good(c, r, 0)
      OBVIOUS
    <2>2. SubSeq(r, 1, 0) = <<>> /\ SubSeq(r, 0 + 1, Len(r)) = r
      BY <2>1, PlainCuts
    <2>3. QED
      BY <2>1, <2>2, AtEmpty
  <1>2. ASSUME NEW m \in S PROVE m + 1 \in S
    <2>1. SUFFICES ASSUME NEW c, NEW r \in Plain, Node(c), m + 1 \in 0..Len(r), SetIn(c, r, v) # Panic
                   PROVE  Good(c, r, m + 1)
      OBVIOUS
    <2>2. m \in Nat /\ m + 1 # 0 /\ (m + 1) - 1 = m
      OBVIOUS
    <2> DEFINE h == SubSeq(r, 1, m + 1)
               t == SubSeq(r, (m + 1) + 1, Len(r))
               b == Child(c, r[1])
               y == SetIn(b, Tail(r), v)
               R == Replaced(c, r[1], y)
    <2>3. /\ r # <<>> /\ m \in 0..Len(Tail(r)) /\ h \in Plain /\ h # <<>> /\ h[1] = r[1]
          /\ Tail(h) = SubSeq(Tail(r), 1, m) /\ t = SubSeq(Tail(r), m + 1, Len(Tail(r)))
      BY <2>1, <2>2, NextCut
    <2>4. r \in Ways /\ r[1] \in Segs /\ Tail(r) \in Plain /\ Node(b)
      BY <2>1, <2>3, PlainWays, NodeFacts
    <2>5. SetIn(c, r, v) = R
      BY <2>3, <2>4, SetStep
    <2>6. y # Panic
      BY <2>1, <2>5 DEF Replaced
    <2>7. Value(y)
      BY <2>4, <2>6, SetFacts
    <2> HIDE DEF y, h, t
    <2>8. Value(R) /\ Child(R, r[1]) = y
      BY <2>1, <2>4, <2>5, <2>7, ReplacedFacts
    <2> HIDE DEF R
    <2>9. Good(b, Tail(r), m)
      <3> HIDE DEF Good
      <3>1. \A x : Node(x) /\ SetIn(x, Tail(r), v) # Panic => Good(x, Tail(r), m)
        BY <2>3, <2>4
      <3>2. QED
        BY <2>4, <2>6, <3>1 DEF y
    <2> HIDE DEF b
    <2>10. At(c, h) = At(b, SubSeq(Tail(r), 1, m))
      <3>1. At(c, h) = At(Child(c, h[1]), Tail(h))
        BY <2>1, <2>3, NodeStep
      <3>2. QED
        BY <2>3, <3>1 DEF b
    <2>11. At(R, h) = At(y, SubSeq(Tail(r), 1, m))
      <3>1. Node(R) /\ Child(R, h[1]) = y
        BY <2>3, <2>8 DEF Node
      <3>2. At(R, h) = At(Child(R, h[1]), Tail(h))
        BY <2>3, <3>1, NodeStep
      <3>3. QED
        BY <2>3, <3>1, <3>2
    <2>12. SetIn(At(c, h), t, v) # Panic /\ At(SetIn(c, r, v), h) = SetIn(At(c, h), t, v)
      BY <2>3, <2>5, <2>9, <2>10, <2>11 DEF y
    <2>13. QED
      BY <2>12 DEF h, t
  <1>3. S \in SUBSET Nat
    OBVIOUS
  <1> HIDE DEF S
  <1>4. n \in S
    <2>1. n \in Nat
      BY PlainWays
    <2>2. S = Nat
      BY <1>1, <1>2, <1>3, SetInduction
    <2>3. QED
      BY <2>1, <2>2
  <1> USE DEF S
  <1>5. QED
    BY <1>4

(* Nothing is in the way of a value but an array that would take a name.   *)
LEMMA SetPanics ==
  ASSUME NEW d, Node(d), NEW p \in Plain, NEW v, Value(v), SetIn(d, p, v) = Panic
  PROVE  \E k \in 1..Len(p) : p[k] \notin Nat /\ At(d, SubSeq(p, 1, k - 1)).kind = "arr"
  <1> DEFINE Bad(c, r) == \E k \in 1..Len(r) : r[k] \notin Nat /\ At(c, SubSeq(r, 1, k - 1)).kind = "arr"
             S == {n \in Nat : \A c : \A r \in Plain :
                     Node(c) /\ Len(r) = n /\ SetIn(c, r, v) = Panic => Bad(c, r)}
  <1>1. 0 \in S
    <2>1. SUFFICES ASSUME NEW c, NEW r \in Plain, Len(r) = 0, SetIn(c, r, v) = Panic PROVE FALSE
      OBVIOUS
    <2>2. r = <<>>
      BY <2>1, EmptySeq DEF Plain
    <2>3. QED
      BY <2>1, <2>2, SetEmpty, ValueFacts
  <1>2. ASSUME NEW n \in S PROVE n + 1 \in S
    <2>1. SUFFICES ASSUME NEW c, NEW r \in Plain, Node(c), Len(r) = n + 1, SetIn(c, r, v) = Panic
                   PROVE  Bad(c, r)
      OBVIOUS
    <2>2. r # <<>> /\ n \in Nat
      BY <2>1
    <2>3. /\ r \in Ways /\ r[1] \in Segs /\ Tail(r) \in Plain /\ Len(Tail(r)) = n
          /\ Node(Child(c, r[1])) /\ \A k \in 1..n : Tail(r)[k] = r[k + 1]
      BY <2>1, <2>2, PlainWays, NodeFacts, Rest DEF Plain
    <2>4. Replaced(c, r[1], SetIn(Child(c, r[1]), Tail(r), v)) = Panic
      BY <2>1, <2>2, <2>3, SetStep
    <2>5. CASE SetIn(Child(c, r[1]), Tail(r), v) = Panic
      <3>1. PICK k \in 1..n : /\ Tail(r)[k] \notin Nat
                              /\ At(Child(c, r[1]), SubSeq(Tail(r), 1, k - 1)).kind = "arr"
        BY <2>3, <2>5
      <3>2. k + 1 \in 1..Len(r) /\ r[k + 1] \notin Nat
        BY <2>1, <2>3, <3>1
      <3>3. k \in 0..Len(r) /\ k # 0
        BY <2>1
      <3> DEFINE h == SubSeq(r, 1, k)
      <3>4. h \in Plain /\ h # <<>> /\ h[1] = r[1] /\ Tail(h) = SubSeq(Tail(r), 1, k - 1)
        BY <3>3, PlainCuts
      <3> HIDE DEF h
      <3>5. At(c, h) = At(Child(c, r[1]), SubSeq(Tail(r), 1, k - 1))
        BY <2>1, <3>4, NodeStep
      <3>6. (k + 1) - 1 = k
        BY <3>3
      <3>7. QED
        BY <3>1, <3>2, <3>5, <3>6 DEF h
    <2>6. CASE SetIn(Child(c, r[1]), Tail(r), v) # Panic
      <3>1. c.kind = "arr" /\ r[1] \notin Nat
        BY <2>4, <2>6 DEF Replaced, Panic, Obj, Arr
      <3>2. 1 \in 1..Len(r) /\ SubSeq(r, 1, 1 - 1) = <<>>
        <4>1. 0 \in 0..Len(r) /\ 1 - 1 = 0
          BY <2>1
        <4>2. QED
          BY <2>1, <4>1, PlainCuts
      <3>3. At(c, SubSeq(r, 1, 1 - 1)).kind = "arr"
        BY <3>1, <3>2, AtEmpty
      <3>4. QED
        BY <3>1, <3>2, <3>3
    <2>7. QED
      BY <2>5, <2>6
  <1>3. S \in SUBSET Nat
    OBVIOUS
  <1> HIDE DEF S
  <1>4. Len(p) \in S
    BY <1>1, <1>2, <1>3, SetInduction, PlainWays
  <1> USE DEF S
  <1>5. QED
    BY <1>4

(* The other places of an object or array that takes a value: they stay;   *)
(* only an array may grow by null up to the new index.                     *)
LEMMA ReplacedOthers ==
  ASSUME NEW c, Node(c), NEW seg \in Segs, NEW x, Value(x), Replaced(c, seg, x) # Panic
  PROVE  LET R == Replaced(c, seg, x)
         IN  /\ \A t \in Segs : t # seg =>
                   \/ Child(R, t) = Child(c, t)
                   \/ Child(c, t) = Missing /\ Child(R, t) = Nil
             /\ seg \in Names => /\ R.kind = "obj"
                                 /\ \A t \in Segs : t # seg => Child(R, t) = Child(c, t)
  <1> DEFINE R == Replaced(c, seg, x)
             f == IF c.kind = "obj" THEN c.f ELSE <<>>
             e == IF c.kind = "arr" THEN c.e ELSE <<>>
             n == IF seg < Len(e) THEN Len(e) ELSE seg + 1
             O == [s \in DOMAIN f \cup {seg} |-> IF s = seg THEN x ELSE f[s]]
             A == [i \in 1..n |-> IF i = seg + 1 THEN x ELSE IF i <= Len(e) THEN e[i] ELSE Nil]
  <1>1. x # Panic
    BY ValueFacts
  <1>2. ~(c.kind = "arr" /\ seg \notin Nat)
    BY DEF Replaced
  <1>3. CASE c.kind = "obj" \/ (c.kind # "arr" /\ seg \notin Nat)
    <2>1. R = Obj(O)
      BY <1>1, <1>2, <1>3 DEF Replaced
    <2>2. R.kind = "obj" /\ R.f = O
      BY <2>1 DEF Obj
    <2>3. ASSUME NEW t \in Segs, t # seg PROVE Child(R, t) = Child(c, t)
      <3>1. CASE c.kind = "obj"
        <4>1. f = c.f
          BY <3>1
        <4> HIDE DEF f
        <4>2. t \in DOMAIN O <=> t \in DOMAIN c.f
          BY <2>3, <4>1
        <4>3. t \in DOMAIN O => O[t] = c.f[t]
          BY <2>3, <4>1
        <4> HIDE DEF O
        <4>4. QED
          BY <2>2, <3>1, <4>2, <4>3 DEF Child
      <3>2. CASE c.kind # "obj"
        <4>1. t \notin DOMAIN O
          BY <2>3, <3>2
        <4> HIDE DEF O
        <4>2. Child(R, t) = Missing
          BY <2>2, <4>1 DEF Child
        <4>3. Child(c, t) = Missing
          BY <1>3, <3>2 DEF Child
        <4>4. QED
          BY <4>2, <4>3
      <3>3. QED
        BY <3>1, <3>2
    <2>4. QED
      BY <2>2, <2>3
  <1>4. CASE ~(c.kind = "obj" \/ (c.kind # "arr" /\ seg \notin Nat))
    <2>1. seg \in Nat /\ seg \notin Names
      BY <1>2, <1>4, NamesAssumption
    <2>2. R = Arr(A)
      BY <1>1, <1>2, <1>4 DEF Replaced
    <2>3. Len(e) \in Nat /\ (c.kind = "arr" => e = c.e)
      <3>1. CASE c.kind = "arr"
        BY <3>1, NodeFacts, Elements
      <3>2. CASE c.kind # "arr"
        BY <3>2
      <3>3. QED
        BY <3>1, <3>2
    <2>4. c.kind # "arr" => Len(e) = 0
      OBVIOUS
    <2> HIDE DEF e
    <2>5. n \in Nat /\ seg + 1 \in 1..n /\ Len(e) <= n
      BY <2>1, <2>3
    <2> HIDE DEF n
    <2>6. Len(A) = n /\ \A i \in 1..n : i # seg + 1 => A[i] = IF i <= Len(e) THEN e[i] ELSE Nil
      BY <2>5
    <2> HIDE DEF A
    <2>7. R.kind = "arr" /\ R.e = A
      BY <2>2 DEF Arr
    <2>8. ASSUME NEW t \in Segs, t # seg
          PROVE  \/ Child(R, t) = Child(c, t)
                 \/ Child(c, t) = Missing /\ Child(R, t) = Nil
      <3>1. CASE t \notin Nat
        <4>1. Child(R, t) = Missing
          BY <2>7, <3>1 DEF Child
        <4>2. Child(c, t) = Missing
          BY <1>4, <3>1 DEF Child
        <4>3. QED
          BY <4>1, <4>2
      <3>2. CASE t \in Nat /\ t < Len(e)
        <4>1. c.kind = "arr" /\ e = c.e
          BY <2>3, <2>4, <3>2
        <4>2. Child(c, t) = e[t + 1]
          BY <3>2, <4>1 DEF Child
        <4>3. t + 1 \in 1..n /\ t + 1 # seg + 1 /\ t + 1 <= Len(e) /\ t < n
          BY <2>1, <2>3, <2>5, <2>8, <3>2
        <4>4. Child(R, t) = A[t + 1]
          BY <2>6, <2>7, <3>2, <4>3 DEF Child
        <4>5. QED
          BY <2>6, <4>2, <4>3, <4>4
      <3>3. CASE t \in Nat /\ ~(t < Len(e))
        <4>1. Child(c, t) = Missing
          BY <1>4, <2>3, <3>3 DEF Child
        <4>2. CASE t < n
          <5>1. t + 1 \in 1..n /\ t + 1 # seg + 1 /\ ~(t + 1 <= Len(e))
            BY <2>1, <2>3, <2>5, <2>8, <3>3, <4>2
          <5>2. Child(R, t) = A[t + 1]
            BY <2>6, <2>7, <3>3, <4>2 DEF Child
          <5>3. QED
            BY <2>6, <4>1, <5>1, <5>2
        <4>3. CASE ~(t < n)
          BY <2>6, <2>7, <3>3, <4>1, <4>3 DEF Child
        <4>4. QED
          BY <4>2, <4>3
      <3>4. QED
        BY <3>1, <3>2, <3>3
    <2>9. QED
      BY <2>1, <2>8
  <1>5. QED
    BY <1>3, <1>4

(* What is found elsewhere stays, or was missing and is null now.          *)
LEMMA SetDiverge ==
  ASSUME NEW p \in Plain, NEW q \in Plain, Diverge(p, q), NEW d, Node(d), NEW v, Value(v),
         SetIn(d, p, v) # Panic
  PROVE  \/ At(SetIn(d, p, v), q) = At(d, q)
         \/ At(d, q) = Missing /\ At(SetIn(d, p, v), q) = Nil
  <1> DEFINE Good(c, r, s) == \/ At(SetIn(c, r, v), s) = At(c, s)
                              \/ At(c, s) = Missing /\ At(SetIn(c, r, v), s) = Nil
             S == {n \in Nat : \A r, s \in Plain : Len(r) = n /\ Diverge(r, s) =>
                     \A c : Node(c) /\ SetIn(c, r, v) # Panic => Good(c, r, s)}
  <1>1. 0 \in S
    <2>1. \A r \in Plain : \A s : Diverge(r, s) => Len(r) # 0
      BY PlainWays DEF Diverge
    <2>2. QED
      BY <2>1
  <1>2. ASSUME NEW n \in S PROVE n + 1 \in S
    <2>1. SUFFICES ASSUME NEW r \in Plain, NEW s \in Plain, Len(r) = n + 1, Diverge(r, s), NEW c,
                          Node(c), SetIn(c, r, v) # Panic
                   PROVE  Good(c, r, s)
      OBVIOUS
    <2>2. r # <<>> /\ s # <<>> /\ (r[1] = s[1] => Diverge(Tail(r), Tail(s)) /\ Tail(r) # <<>>)
      BY <2>1, ApartRest
    <2>3. /\ r \in Ways /\ r[1] \in Segs /\ Tail(r) \in Plain /\ Len(Tail(r)) = n
          /\ s \in Ways /\ s[1] \in Segs /\ Tail(s) \in Plain
      BY <2>1, <2>2, PlainWays, Rest DEF Plain
    <2> DEFINE b == Child(c, r[1])
               y == SetIn(b, Tail(r), v)
               R == Replaced(c, r[1], y)
    <2>4. SetIn(c, r, v) = R
      BY <2>2, <2>3, SetStep
    <2>5. y # Panic
      BY <2>1, <2>4 DEF Replaced
    <2>6. Node(b)
      BY <2>1, NodeFacts
    <2>7. Value(y)
      BY <2>3, <2>5, <2>6, SetFacts
    <2> HIDE DEF y
    <2>8. /\ Value(R) /\ Child(R, r[1]) = y
          /\ \A t \in Segs : t # r[1] => \/ Child(R, t) = Child(c, t)
                                         \/ Child(c, t) = Missing /\ Child(R, t) = Nil
      <3>1. R # Panic
        BY <2>1, <2>4
      <3>2. Value(R) /\ Child(R, r[1]) = y
        BY <2>1, <2>3, <2>7, <3>1, ReplacedFacts
      <3>3. \A t \in Segs : t # r[1] => \/ Child(R, t) = Child(c, t)
                                        \/ Child(c, t) = Missing /\ Child(R, t) = Nil
        <4>1. Node(c) /\ r[1] \in Segs /\ Value(y) /\ Replaced(c, r[1], y) # Panic
          BY <2>1, <2>3, <2>7, <3>1
        <4> HIDE DEF b, R
        <4>2. /\ \A t \in Segs : t # r[1] =>
                   \/ Child(Replaced(c, r[1], y), t) = Child(c, t)
                   \/ Child(c, t) = Missing /\ Child(Replaced(c, r[1], y), t) = Nil
          BY <4>1, ReplacedOthers
        <4>3. QED
          BY <4>2 DEF R
      <3>4. QED
        BY <3>2, <3>3
    <2> HIDE DEF R
    <2>9. At(c, s) = At(Child(c, s[1]), Tail(s)) /\ At(R, s) = At(Child(R, s[1]), Tail(s))
      <3>1. Node(R)
        BY <2>8 DEF Node
      <3>2. QED
        BY <2>1, <2>2, <3>1, NodeStep
    <2>10. CASE r[1] = s[1]
      <3>1. Good(b, Tail(r), Tail(s))
        <4> HIDE DEF Good
        <4>1. \A x : Node(x) /\ SetIn(x, Tail(r), v) # Panic => Good(x, Tail(r), Tail(s))
          BY <2>2, <2>3, <2>10
        <4>2. QED
          BY <2>5, <2>6, <4>1 DEF y
      <3>2. QED
        BY <2>4, <2>8, <2>9, <2>10, <3>1 DEF y
    <2>11. CASE r[1] # s[1]
      <3>1. CASE Child(R, s[1]) = Child(c, s[1])
        BY <2>4, <2>9, <3>1
      <3>2. CASE Child(c, s[1]) = Missing /\ Child(R, s[1]) = Nil
        <4>1. At(c, s) = Missing
          BY <2>3, <2>9, <3>2, AtMissing
        <4>2. At(Nil, Tail(s)) \in {Nil, Missing}
          <5>1. CASE Tail(s) = <<>>
            BY <5>1, AtEmpty
          <5>2. CASE Tail(s) # <<>>
            <6>1. Value(Nil) /\ ~IsTree(Nil)
              BY PlainValues DEF IsTree, Nil
            <6>2. Tail(s) \in Ways
              BY <2>3, PlainWays
            <6>3. At(Nil, Tail(s)) = Missing
              BY <5>2, <6>1, <6>2, AtNoTree
            <6>4. QED
              BY <6>3
          <5>3. QED
            BY <5>1, <5>2
        <4>3. QED
          BY <2>4, <2>9, <3>2, <4>1, <4>2
      <3>3. QED
        BY <2>3, <2>8, <2>11, <3>1, <3>2
    <2>12. QED
      BY <2>10, <2>11
  <1>3. S \in SUBSET Nat
    OBVIOUS
  <1> HIDE DEF S
  <1>4. Len(p) \in S
    BY <1>1, <1>2, <1>3, SetInduction, PlainWays
  <1> USE DEF S
  <1>5. QED
    BY <1>4
=============================================================================
