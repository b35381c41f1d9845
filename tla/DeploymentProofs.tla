-------------------------- MODULE DeploymentProofs --------------------------
(***************************************************************************)
(* What the deployment tool plans and deploys, for any contracts, however  *)
(* they depend on each other and in whatever order they are added.         *)
(***************************************************************************)
EXTENDS Deployment, BlueDeployment, SumTheorems

-----------------------------------------------------------------------------
\* Sequences and recursion along them

\* Induction along a sequence.
LEMMA AlongSequence ==
    ASSUME NEW n \in Nat, NEW T, 0 \in T,
           \A i \in 1 .. n : i - 1 \in T => i \in T
    PROVE  \A i \in 0 .. n : i \in T
<1> DEFINE Bad == {i \in 0 .. n : i \notin T}
<1> SUFFICES ASSUME Bad # {} PROVE FALSE
  OBVIOUS
<1>1. PICK i \in Bad : \A k \in Bad : i =< k
  <2>1. Bad \in SUBSET Nat
    OBVIOUS
  <2> QED
    BY <2>1, LeastNumber
<1>2. i \in 0 .. n /\ i \notin T /\ i # 0
  OBVIOUS
<1>3. i \in 1 .. n /\ i - 1 \in 0 .. n /\ ~(i =< i - 1)
  BY <1>2
<1>4. i - 1 \in T
  BY <1>1, <1>3
<1> QED
  BY <1>2, <1>3, <1>4

\* What n steps make of a base, one after the other.
StepFunctions(A, n) == [A \X (1 .. n) -> A]
Follows(acc, base, f, n) ==
    /\ acc[0] = base
    /\ \A i \in 1 .. n : acc[i] = f[<<acc[i - 1], i>>]

LEMMA AccumulatorExists ==
    ASSUME NEW n \in Nat, NEW A, NEW base \in A, NEW f \in StepFunctions(A, n)
    PROVE  \E acc \in [0 .. n -> A] : Follows(acc, base, f, n)
<1> DEFINE Up(m, acc) ==
             /\ acc[0] = base
             /\ \A i \in 1 .. m : acc[i] = f[<<acc[i - 1], i>>]
           T == {m \in 0 .. n : \E acc \in [0 .. n -> A] : Up(m, acc)}
<1>1. 0 \in T
  <2> DEFINE acc == [i \in 0 .. n |-> base]
  <2>1. acc \in [0 .. n -> A] /\ Up(0, acc) /\ 0 \in 0 .. n
    OBVIOUS
  <2> HIDE DEF acc, Up
  <2> QED
    BY <2>1
<1>2. ASSUME NEW m \in 1 .. n, m - 1 \in T PROVE m \in T
  <2>1. PICK acc \in [0 .. n -> A] : Up(m - 1, acc)
    BY <1>2
  <2>2. acc[m - 1] \in A /\ f[<<acc[m - 1], m>>] \in A
    BY DEF StepFunctions
  <2> DEFINE next == [acc EXCEPT ![m] = f[<<acc[m - 1], m>>]]
  <2>3. next \in [0 .. n -> A]
    BY <2>2
  <2>4. next[0] = base
    BY <2>1
  <2>5. ASSUME NEW i \in 1 .. m PROVE next[i] = f[<<next[i - 1], i>>]
    <3>1. i - 1 # m /\ next[i - 1] = acc[i - 1]
      OBVIOUS
    <3>2. CASE i = m
      BY <3>1, <3>2
    <3>3. CASE i # m
      <4>1. i \in 1 .. m - 1
        BY <3>3
      <4> QED
        BY <4>1, <3>1, <3>3, <2>1
    <3> QED
      BY <3>2, <3>3
  <2>6. Up(m, next) /\ m \in 0 .. n
    BY <2>4, <2>5
  <2> HIDE DEF next, Up
  <2> QED
    BY <2>3, <2>6
<1> HIDE DEF T
<1>3. n \in T
  BY <1>1, <1>2, AlongSequence
<1> QED
  BY <1>3 DEF T, Follows

-----------------------------------------------------------------------------
\* Plans

Record == [state : {"new", "linked", "instantiated"},
           address : Nat \cup {NoAddress},
           data : SUBSET (Contract \X Nat)]
Accumulator == [cs : [Contract -> Record], next : Nat, ok : BOOLEAN]

LEMMA AddressedType ==
    ASSUME NEW a \in Accumulator, NEW c \in Contract
    PROVE  Addressed(a, c) \in Accumulator
<1>1. /\ a.cs \in [Contract -> Record] /\ a.next \in Nat /\ a.ok \in BOOLEAN
      /\ a = [cs |-> a.cs, next |-> a.next, ok |-> a.ok]
  BY DEF Accumulator
<1>2. CASE ~a.ok \/ ~AddressMayChange(a.cs, c)
  <2>1. Addressed(a, c) = [cs |-> a.cs, next |-> a.next, ok |-> FALSE]
    BY <1>1, <1>2 DEF Addressed
  <2> QED
    BY <1>1, <2>1 DEF Accumulator
<1>3. CASE a.cs[c].address # NoAddress
           /\ ~(~a.ok \/ ~AddressMayChange(a.cs, c))
  BY <1>3 DEF Addressed
<1>4. CASE a.cs[c].address = NoAddress
           /\ ~(~a.ok \/ ~AddressMayChange(a.cs, c))
  <2> DEFINE cs == [a.cs EXCEPT ![c].address = a.next]
  <2>1. cs \in [Contract -> Record]
    <3>1. [a.cs[c] EXCEPT !.address = a.next] \in Record
      BY <1>1 DEF Record
    <3> QED
      BY <1>1, <3>1
  <2>2. Addressed(a, c) = [cs |-> cs, next |-> a.next + 1, ok |-> TRUE]
    BY <1>4 DEF Addressed
  <2> HIDE DEF cs
  <2> QED
    BY <1>1, <2>1, <2>2 DEF Accumulator
<1> QED
  BY <1>2, <1>3, <1>4

\* What instantiating a contract makes of it, and of no other.
LEMMA InstantiatedType ==
    ASSUME ContractTypeOK, NEW cs \in [Contract -> Record], NEW c \in Contract
    PROVE  /\ Instantiated(cs, c) \in [Contract -> Record]
           /\ \A d \in Contract :
                 /\ d # c => Instantiated(cs, c)[d] = cs[d]
                 /\ Instantiated(cs, c)[d].address = cs[d].address
           /\ /\ cs[c].state = "new"
              /\ Instantiated(cs, c)[c].state = "instantiated"
              => /\ \A d \in Dependencies(c) : Known(cs, d)
                 /\ Instantiated(cs, c)[c].data
                      = {<<d, cs[d].address>> : d \in Dependencies(c)}
           /\ /\ cs[c].state = "new"
              /\ \A d \in Dependencies(c) : Known(cs, d)
              /\ Placeholders[c] \subseteq linkReplacements[c]
              => Instantiated(cs, c)[c].state = "instantiated"
<1> DEFINE linkable == /\ cs[c].state = "new"
                       /\ \A d \in linkReplacements[c] : Known(cs, d)
                       /\ Placeholders[c] \subseteq linkReplacements[c]
           encodable == \A d \in Refs[c] : Known(cs, d)
           data == {<<d, cs[d].address>> : d \in Dependencies(c)}
           linked == [cs EXCEPT ![c].state = "linked"]
           r == [state |-> "instantiated", address |-> cs[c].address,
                 data |-> data]
           done == [cs EXCEPT ![c] = r]
<1>1. Dependencies(c) \subseteq Contract /\ cs[c] \in Record
  BY ContractAssumption DEF Dependencies, ContractTypeOK
<1>2. CASE ~linkable
  BY <1>2 DEF Instantiated, Dependencies
<1>3. CASE linkable /\ ~encodable
  <2>1. Instantiated(cs, c) = linked
    BY <1>3 DEF Instantiated
  <2>2. linked[c] \in Record /\ linked[c].state = "linked"
        /\ linked[c].address = cs[c].address
    BY <1>1 DEF Record
  <2>3. linked \in [Contract -> Record]
    BY <1>1, <2>2
  <2>4. \A d \in Contract : d # c => linked[d] = cs[d]
    OBVIOUS
  <2>5. ~ \A d \in Dependencies(c) : Known(cs, d)
    BY <1>3 DEF Dependencies
  <2> QED
    BY <2>1, <2>2, <2>3, <2>4, <2>5
<1>4. CASE linkable /\ encodable
  <2>1. Instantiated(cs, c) = done
    BY <1>4 DEF Instantiated
  <2>2. \A d \in Dependencies(c) : Known(cs, d)
    BY <1>4 DEF Dependencies
  <2>3. \A d \in Dependencies(c) : cs[d].address \in Nat
    <3>1. ASSUME NEW d \in Dependencies(c) PROVE cs[d].address \in Nat
      <4>1. cs[d] \in Record /\ cs[d].address # NoAddress
        BY <1>1, <2>2 DEF Known
      <4> QED
        BY <4>1 DEF Record
    <3> QED
      BY <3>1
  <2>4. data \in SUBSET (Contract \X Nat)
    BY <1>1, <2>3
  <2> HIDE DEF data
  <2>6. done[c] = r
    OBVIOUS
  <2>7. done[c] \in Record
    BY <1>1, <2>4, <2>6 DEF Record
  <2>8. \A d \in Contract : d # c => done[d] = cs[d]
    OBVIOUS
  <2>9. done \in [Contract -> Record]
    BY <2>6, <2>7
  <2> HIDE DEF done
  <2>10. /\ done[c].address = cs[c].address
         /\ done[c].state = "instantiated" /\ done[c].data = data
    BY <2>6
  <2> QED
    BY <2>1, <2>2, <2>8, <2>9, <2>10 DEF data
<1> QED
  BY <1>2, <1>3, <1>4

LEMMA InstantiatedNextType ==
    ASSUME ContractTypeOK, NEW a \in Accumulator, NEW c \in Contract
    PROVE  InstantiatedNext(a, c) \in Accumulator
<1>1. /\ a.cs \in [Contract -> Record] /\ a.next \in Nat /\ a.ok \in BOOLEAN
      /\ a = [cs |-> a.cs, next |-> a.next, ok |-> a.ok]
  BY DEF Accumulator
<1>2. CASE ~a.ok
  BY <1>2 DEF InstantiatedNext
<1>3. CASE a.ok
  <2> DEFINE ok == /\ a.cs[c].state = "new"
                   /\ Instantiated(a.cs, c)[c].state = "instantiated"
  <2>1. InstantiatedNext(a, c)
          = [cs |-> Instantiated(a.cs, c), next |-> a.next, ok |-> ok]
    BY <1>1, <1>3 DEF InstantiatedNext
  <2>2. Instantiated(a.cs, c) \in [Contract -> Record] /\ ok \in BOOLEAN
    BY <1>1, InstantiatedType
  <2> HIDE DEF ok
  <2> QED
    BY <1>1, <2>1, <2>2 DEF Accumulator
<1> QED
  BY <1>2, <1>3

\* The two passes of a plan, as sequences of what they have made so far.
LEMMA AddressedInTurn ==
    ASSUME NEW order \in Seq(Contract), NEW base \in Accumulator
    PROVE  \E acc \in [0 .. Len(order) -> Accumulator] :
              /\ InTurn(Addressed, base, order) = acc[Len(order)]
              /\ acc[0] = base
              /\ \A i \in 1 .. Len(order) :
                    acc[i] = Addressed(acc[i - 1], order[i])
<1> DEFINE n == Len(order)
           f == [p \in Accumulator \X (1 .. n) |-> Addressed(p[1], order[p[2]])]
           Turns(acc) == acc = [i \in 0 .. n |-> IF i = 0 THEN base
                                            ELSE Addressed(acc[i - 1], order[i])]
           last == CHOOSE acc : Turns(acc)
<1>1. n \in Nat /\ \A i \in 1 .. n : order[i] \in Contract
  OBVIOUS
<1> HIDE DEF n
<1>2. f \in StepFunctions(Accumulator, n)
  BY <1>1, AddressedType DEF StepFunctions
<1>3. \A a \in Accumulator, i \in 1 .. n : f[<<a, i>>] = Addressed(a, order[i])
  OBVIOUS
<1> HIDE DEF f
<1>4. PICK acc \in [0 .. n -> Accumulator] : Follows(acc, base, f, n)
  BY <1>1, <1>2, AccumulatorExists
<1>5. \A i \in 0 .. n :
         acc[i] = IF i = 0 THEN base ELSE Addressed(acc[i - 1], order[i])
  <2>1. ASSUME NEW i \in 1 .. n
        PROVE  acc[i] = Addressed(acc[i - 1], order[i])
    <3>1. i \in 0 .. n /\ i - 1 \in 0 .. n /\ i # 0
      BY <1>1
    <3>2. acc[i] = f[<<acc[i - 1], i>>] /\ acc[i - 1] \in Accumulator
      BY <1>4, <3>1 DEF Follows
    <3> QED
      BY <1>3, <3>2
  <2>2. acc[0] = base
    BY <1>4 DEF Follows
  <2> QED
    BY <1>1, <2>1, <2>2
<1>6. Turns(acc)
  BY <1>4, <1>5
<1>7. Turns(last)
  BY <1>6
<1>8. InTurn(Addressed, base, order) = last[n]
  BY DEF InTurn, n
<1> HIDE DEF last
<1>9. /\ last = [i \in 0 .. n |-> last[i]] /\ last[0] = base
      /\ \A i \in 1 .. n : last[i] = Addressed(last[i - 1], order[i])
  <2>1. last = [i \in 0 .. n |-> IF i = 0 THEN base
                                  ELSE Addressed(last[i - 1], order[i])]
    BY <1>7
  <2> HIDE DEF Turns
  <2>2. \A i \in 0 .. n : last[i] = IF i = 0 THEN base
                                    ELSE Addressed(last[i - 1], order[i])
    BY <2>1, Zenon
  <2>3. 0 \in 0 .. n /\ \A i \in 1 .. n : i \in 0 .. n /\ i # 0
    BY <1>1
  <2>4. last = [i \in 0 .. n |-> last[i]]
    BY <2>1, Zenon
  <2> QED
    BY <2>2, <2>3, <2>4, Zenon
<1>10. last \in [0 .. n -> Accumulator]
  <2> DEFINE T == {i \in 0 .. n : last[i] \in Accumulator}
  <2>1. 0 \in T
    BY <1>1, <1>9
  <2>2. ASSUME NEW i \in 1 .. n, i - 1 \in T PROVE i \in T
    <3>1. last[i - 1] \in Accumulator /\ i \in 0 .. n
      BY <1>1, <2>2
    <3>2. Addressed(last[i - 1], order[i]) \in Accumulator
      BY <1>1, <3>1, AddressedType
    <3> QED
      BY <1>9, <3>1, <3>2
  <2> HIDE DEF T
  <2>3. \A i \in 0 .. n : i \in T
    BY <1>1, <2>1, <2>2, AlongSequence
  <2> QED
    BY <1>9, <2>3 DEF T
<1> QED
  BY <1>8, <1>9, <1>10 DEF n

LEMMA InstantiatedInTurn ==
    ASSUME ContractTypeOK, NEW order \in Seq(Contract), NEW base \in Accumulator
    PROVE  \E acc \in [0 .. Len(order) -> Accumulator] :
              /\ InTurn(InstantiatedNext, base, order) = acc[Len(order)]
              /\ acc[0] = base
              /\ \A i \in 1 .. Len(order) :
                    acc[i] = InstantiatedNext(acc[i - 1], order[i])
<1> DEFINE n == Len(order)
           f == [p \in Accumulator \X (1 .. n) |-> InstantiatedNext(p[1], order[p[2]])]
           Turns(acc) == acc = [i \in 0 .. n |-> IF i = 0 THEN base
                                            ELSE InstantiatedNext(acc[i - 1], order[i])]
           last == CHOOSE acc : Turns(acc)
<1>1. n \in Nat /\ \A i \in 1 .. n : order[i] \in Contract
  OBVIOUS
<1> HIDE DEF n
<1>2. f \in StepFunctions(Accumulator, n)
  BY <1>1, InstantiatedNextType DEF StepFunctions
<1>3. \A a \in Accumulator, i \in 1 .. n : f[<<a, i>>] = InstantiatedNext(a, order[i])
  OBVIOUS
<1> HIDE DEF f
<1>4. PICK acc \in [0 .. n -> Accumulator] : Follows(acc, base, f, n)
  BY <1>1, <1>2, AccumulatorExists
<1>5. \A i \in 0 .. n :
         acc[i] = IF i = 0 THEN base ELSE InstantiatedNext(acc[i - 1], order[i])
  <2>1. ASSUME NEW i \in 1 .. n
        PROVE  acc[i] = InstantiatedNext(acc[i - 1], order[i])
    <3>1. i \in 0 .. n /\ i - 1 \in 0 .. n /\ i # 0
      BY <1>1
    <3>2. acc[i] = f[<<acc[i - 1], i>>] /\ acc[i - 1] \in Accumulator
      BY <1>4, <3>1 DEF Follows
    <3> QED
      BY <1>3, <3>2
  <2>2. acc[0] = base
    BY <1>4 DEF Follows
  <2> QED
    BY <1>1, <2>1, <2>2
<1>6. Turns(acc)
  BY <1>4, <1>5
<1>7. Turns(last)
  BY <1>6
<1>8. InTurn(InstantiatedNext, base, order) = last[n]
  BY DEF InTurn, n
<1> HIDE DEF last
<1>9. /\ last = [i \in 0 .. n |-> last[i]] /\ last[0] = base
      /\ \A i \in 1 .. n : last[i] = InstantiatedNext(last[i - 1], order[i])
  <2>1. last = [i \in 0 .. n |-> IF i = 0 THEN base
                                  ELSE InstantiatedNext(last[i - 1], order[i])]
    BY <1>7
  <2> HIDE DEF Turns
  <2>2. \A i \in 0 .. n : last[i] = IF i = 0 THEN base
                                    ELSE InstantiatedNext(last[i - 1], order[i])
    BY <2>1, Zenon
  <2>3. 0 \in 0 .. n /\ \A i \in 1 .. n : i \in 0 .. n /\ i # 0
    BY <1>1
  <2>4. last = [i \in 0 .. n |-> last[i]]
    BY <2>1, Zenon
  <2> QED
    BY <2>2, <2>3, <2>4, Zenon
<1>10. last \in [0 .. n -> Accumulator]
  <2> DEFINE T == {i \in 0 .. n : last[i] \in Accumulator}
  <2>1. 0 \in T
    BY <1>1, <1>9
  <2>2. ASSUME NEW i \in 1 .. n, i - 1 \in T PROVE i \in T
    <3>1. last[i - 1] \in Accumulator /\ i \in 0 .. n
      BY <1>1, <2>2
    <3>2. InstantiatedNext(last[i - 1], order[i]) \in Accumulator
      BY <1>1, <3>1, InstantiatedNextType
    <3> QED
      BY <1>9, <3>1, <3>2
  <2> HIDE DEF T
  <2>3. \A i \in 0 .. n : i \in T
    BY <1>1, <2>1, <2>2, AlongSequence
  <2> QED
    BY <1>9, <2>3 DEF T
<1> QED
  BY <1>8, <1>9, <1>10 DEF n

-----------------------------------------------------------------------------
\* The order of the contracts

\* Sorting rearranges a sequence so that the counts do not descend.
LEMMA SortedPermutes ==
    ASSUME NEW S, NEW cs \in Seq(S), NEW counts,
           \A i \in 1 .. Len(cs) : counts[cs[i]] \in Nat
    PROVE  \E p \in [1 .. Len(cs) -> 1 .. Len(cs)] :
              /\ Sorted(cs, counts) = [k \in 1 .. Len(cs) |-> cs[p[k]]]
              /\ \A i \in 1 .. Len(cs) : \E k \in 1 .. Len(cs) : p[k] = i
              /\ \A k, l \in 1 .. Len(cs) : p[k] = p[l] => k = l
              /\ \A k, l \in 1 .. Len(cs) :
                    k < l => counts[cs[p[k]]] =< counts[cs[p[l]]]
<1> DEFINE n == Len(cs)
           D == 1 .. n
           size == [i \in D |-> counts[cs[i]]]
           before(j, i) == size[j] < size[i] \/ (size[j] = size[i] /\ j < i)
           Earlier(i) == {j \in D : before(j, i)}
           place == [i \in D |-> Cardinality(Earlier(i)) + 1]
           p == [k \in D |-> CHOOSE i \in D : place[i] = k]
<1>1. n \in Nat /\ DOMAIN cs = D /\ D \subseteq Nat
  OBVIOUS
<1>2. \A i \in D : size[i] \in Nat /\ size[i] = counts[cs[i]]
  BY <1>1
<1>3. IsFiniteSet(D) /\ Cardinality(D) = n
  <2>1. 1 \in Int /\ n \in Int
    BY <1>1
  <2> HIDE DEF n
  <2>2. /\ IsFiniteSet(1 .. n)
        /\ Cardinality(1 .. n) = IF 1 > n THEN 0 ELSE n - 1 + 1
    BY <2>1, FS_Interval
  <2> QED
    BY <2>2, <1>1
<1>4. Sorted(cs, counts) = [k \in D |-> cs[p[k]]]
  BY <1>1 DEF Sorted
<1> HIDE DEF size, D, n
<1>5. ASSUME NEW i \in D
      PROVE  /\ IsFiniteSet(Earlier(i)) /\ Cardinality(Earlier(i)) \in Nat
             /\ Cardinality(Earlier(i)) < n
  <2>1. Earlier(i) \in SUBSET D /\ i \notin Earlier(i)
    BY <1>1, <1>2
  <2> HIDE DEF Earlier
  <2>2. /\ IsFiniteSet(Earlier(i)) /\ Cardinality(Earlier(i)) =< Cardinality(D)
        /\ Cardinality(D) = Cardinality(Earlier(i)) => D = Earlier(i)
    BY <2>1, <1>3, FS_Subset
  <2>3. Cardinality(Earlier(i)) \in Nat
    BY <2>2, FS_CardinalityType
  <2> QED
    BY <2>1, <2>2, <2>3, <1>1, <1>3
<1>6. ASSUME NEW i \in D, NEW j \in D, before(j, i)
      PROVE  place[j] < place[i]
  <2>1. Earlier(j) \in SUBSET Earlier(i) /\ j \in Earlier(i) /\ j \notin Earlier(j)
    BY <1>1, <1>2, <1>6
  <2> HIDE DEF Earlier
  <2>2. /\ Cardinality(Earlier(j)) =< Cardinality(Earlier(i))
        /\ Cardinality(Earlier(i)) = Cardinality(Earlier(j))
              => Earlier(i) = Earlier(j)
    BY <2>1, <1>5, FS_Subset
  <2>3. Cardinality(Earlier(j)) < Cardinality(Earlier(i))
    BY <2>1, <2>2, <1>5
  <2> QED
    BY <2>3, <1>5
<1>7. place \in [D -> D]
  <2>1. ASSUME NEW i \in D PROVE Cardinality(Earlier(i)) + 1 \in D
    <3> HIDE DEF Earlier
    <3> QED
      BY <1>1, <1>5 DEF D
  <2> HIDE DEF Earlier
  <2> QED
    BY <2>1
<1> HIDE DEF Earlier, place
<1>8. \A i, j \in D : place[i] = place[j] => i = j
  <2> SUFFICES ASSUME NEW i \in D, NEW j \in D, place[i] = place[j], i # j
               PROVE  FALSE
    OBVIOUS
  <2>1. before(i, j) \/ before(j, i)
    BY <1>1, <1>2
  <2>2. place[i] \in Nat /\ place[j] \in Nat
    BY <1>1, <1>7
  <2> HIDE DEF before
  <2> QED
    BY <2>1, <2>2, <1>6
<1>9. \A k \in D : \E i \in D : place[i] = k
  <2>1. place \in Injection(D, D)
    BY <1>7, <1>8 DEF Injection, IsInjective
  <2>2. place \in Surjection(D, D)
    BY <2>1, <1>3, FS_Injection
  <2> QED
    BY <2>2 DEF Surjection
<1>10. \A k \in D : p[k] \in D /\ place[p[k]] = k
  BY <1>9
<1>11. p \in [D -> D]
  BY <1>10
<1> HIDE DEF p
<1>12. \A i \in D : \E k \in D : p[k] = i
  BY <1>7, <1>8, <1>10
<1>13. \A k, l \in D : p[k] = p[l] => k = l
  BY <1>10
<1>14. ASSUME NEW k \in D, NEW l \in D, k < l
       PROVE  counts[cs[p[k]]] =< counts[cs[p[l]]]
  <2>1. /\ size[p[k]] = counts[cs[p[k]]] /\ size[p[l]] = counts[cs[p[l]]]
        /\ size[p[k]] \in Nat /\ size[p[l]] \in Nat
        /\ k \in Nat /\ l \in Nat
    BY <1>1, <1>2, <1>10
  <2>2. size[p[l]] < size[p[k]] => l < k
    BY <1>6, <1>10
  <2> QED
    BY <2>1, <2>2, <1>14
<1> QED
  BY <1>4, <1>11, <1>12, <1>13, <1>14 DEF D, n

\* The contracts that counting ends for, as Cyclic says.
Sound == {c \in Contract : ~Cyclic({c})}

\* They depend on their like, and some of any of them on none of the others.
LEMMA SoundIsClosed ==
    /\ \A c \in Sound : Dependencies(c) \cap Contract \subseteq Sound
    /\ \A T \in SUBSET Sound :
          T # {} => \E c \in T : Dependencies(c) \cap T = {}
    /\ \A cs : ~Cyclic(cs) => cs \cap Contract \subseteq Sound
<1>1. ASSUME NEW c \in Sound, NEW d \in Dependencies(c) \cap Contract,
             Cyclic({d})
      PROVE  FALSE
  <2>1. PICK S \in SUBSET Contract :
           S \cap {d} # {} /\ \A e \in S : Dependencies(e) \cap S # {}
    BY <1>1 DEF Cyclic
  <2>2. /\ S \cup {c} \in SUBSET Contract /\ (S \cup {c}) \cap {c} # {}
        /\ \A e \in S \cup {c} : Dependencies(e) \cap (S \cup {c}) # {}
    BY <2>1 DEF Sound
  <2>3. Cyclic({c})
    BY <2>2 DEF Cyclic
  <2> QED
    BY <2>3 DEF Sound
<1>2. ASSUME NEW T \in SUBSET Sound, NEW c \in T,
             \A e \in T : Dependencies(e) \cap T # {}
      PROVE  FALSE
  <2>1. T \in SUBSET Contract /\ T \cap {c} # {}
    BY DEF Sound
  <2>2. Cyclic({c})
    BY <1>2, <2>1 DEF Cyclic
  <2> QED
    BY <2>2 DEF Sound
<1>3. ASSUME NEW cs, ~Cyclic(cs), NEW c \in cs \cap Contract, Cyclic({c})
      PROVE  FALSE
  <2>1. PICK S \in SUBSET Contract :
           S \cap {c} # {} /\ \A e \in S : Dependencies(e) \cap S # {}
    BY <1>3 DEF Cyclic
  <2>2. S \cap cs # {}
    BY <2>1
  <2> QED
    BY <1>3, <2>1, <2>2 DEF Cyclic
<1>4. \A c \in Sound : Dependencies(c) \cap Contract \subseteq Sound
  BY <1>1 DEF Sound
<1>5. \A T \in SUBSET Sound :
         T # {} => \E c \in T : Dependencies(c) \cap T = {}
  BY <1>2
<1>6. \A cs : ~Cyclic(cs) => cs \cap Contract \subseteq Sound
  BY <1>3 DEF Sound
<1> QED
  BY <1>4, <1>5, <1>6

\* What the count is of some function in place of itself.
Counted(f, c) ==
    1 + SumFunctionOnSet(f, Refs[c]) + SumFunctionOnSet(f, linkReplacements[c])

LEMMA DependenciesOf ==
    ASSUME ContractTypeOK, NEW c \in Contract
    PROVE  /\ Refs[c] \subseteq Contract /\ linkReplacements[c] \subseteq Contract
           /\ IsFiniteSet(Refs[c]) /\ IsFiniteSet(linkReplacements[c])
           /\ Dependencies(c) = Refs[c] \cup linkReplacements[c]
           /\ Dependencies(c) \subseteq Contract
<1>1. Refs[c] \subseteq Contract /\ linkReplacements[c] \subseteq Contract
  BY ContractAssumption DEF ContractTypeOK
<1>2. IsFiniteSet(Refs[c]) /\ IsFiniteSet(linkReplacements[c])
  BY <1>1, ContractAssumption, FS_Subset
<1> QED
  BY <1>1, <1>2 DEF Dependencies

\* A count is one more than two sums of counts, so it is greater than each.
LEMMA CountedGreater ==
    ASSUME ContractTypeOK, NEW c \in Contract, NEW f,
           \A d \in Dependencies(c) : f[d] \in Nat
    PROVE  /\ Counted(f, c) \in Nat
           /\ \A d \in Dependencies(c) : f[d] < Counted(f, c)
<1> DEFINE R == Refs[c]
           L == linkReplacements[c]
           r == SumFunctionOnSet(f, R)
           l == SumFunctionOnSet(f, L)
<1>1. /\ IsFiniteSet(R) /\ IsFiniteSet(L) /\ Dependencies(c) = R \cup L
      /\ \A d \in R : f[d] \in Nat
      /\ \A d \in L : f[d] \in Nat
  BY DependenciesOf
<1>2. Counted(f, c) = 1 + r + l
  BY DEF Counted
<1> HIDE DEF R, L
<1>3. r \in Nat /\ l \in Nat
  BY <1>1, SumNat
<1>4. \A d \in R : f[d] =< r
  BY <1>1, SumMember
<1>5. \A d \in L : f[d] =< l
  BY <1>1, SumMember
<1> HIDE DEF r, l
<1> QED
  BY <1>1, <1>2, <1>3, <1>4, <1>5

\* Only the counts of its dependencies matter.
LEMMA CountedSame ==
    ASSUME ContractTypeOK, NEW c \in Contract, NEW f, NEW g,
           \A d \in Dependencies(c) : f[d] \in Nat /\ f[d] = g[d]
    PROVE  Counted(f, c) = Counted(g, c)
<1> DEFINE R == Refs[c]
           L == linkReplacements[c]
<1>1. /\ IsFiniteSet(R) /\ IsFiniteSet(L)
      /\ \A d \in R : f[d] \in Int /\ f[d] = g[d]
      /\ \A d \in L : f[d] \in Int /\ f[d] = g[d]
  BY DependenciesOf
<1> HIDE DEF R, L
<1>2. SumFunctionOnSet(f, R) = SumFunctionOnSet(g, R)
  BY <1>1, SumSame
<1>3. SumFunctionOnSet(f, L) = SumFunctionOnSet(g, L)
  BY <1>1, SumSame
<1> QED
  BY <1>2, <1>3 DEF Counted, R, L

\* The recursion has a solution: it is built up from the contracts that depend
\* on nothing.
LEMMA CountExists ==
    ASSUME ContractTypeOK
    PROVE  \E f : f = [c \in Sound |-> Counted(f, c)]
<1> DEFINE Solves(f, T) == \A c \in T : f[c] \in Nat /\ f[c] = Counted(f, c)
           Closed(T) == \A c \in T : Dependencies(c) \subseteq T
           Left == {U \in SUBSET Sound :
                      Closed(Sound \ U) /\ \E f : Solves(f, Sound \ U)}
<1>1. IsFiniteSet(Sound)
  BY ContractAssumption, FS_Subset DEF Sound
<1>2. Sound \in Left
  <2>1. Sound \ Sound = {}
    OBVIOUS
  <2> QED
    BY <2>1
<1>3. PICK U \in Left : \A c \in U : U \ {c} \notin Left
  <2>1. Left \in SUBSET (SUBSET Sound) /\ Left # {}
    BY <1>2
  <2> HIDE DEF Left
  <2> QED
    BY <1>1, <2>1, SmallestSet
<1> DEFINE T == Sound \ U
<1>4. PICK f : Solves(f, T)
  OBVIOUS
<1>5. Closed(T) /\ U \in SUBSET Sound
  OBVIOUS
<1>6. U = {}
  <2> SUFFICES ASSUME U # {} PROVE FALSE
    OBVIOUS
  <2>1. PICK c \in U : Dependencies(c) \cap U = {}
    BY <1>5, SoundIsClosed
  <2>2. c \in Sound /\ c \in Contract
    BY <1>5 DEF Sound
  <2>3. Dependencies(c) \subseteq T
    BY <2>1, <2>2, SoundIsClosed, DependenciesOf
  <2> DEFINE g == [d \in Sound |-> IF d = c THEN Counted(f, c) ELSE f[d]]
  <2>4. Sound \ (U \ {c}) = T \cup {c} /\ c \notin T
    BY <2>2
  <2>5. \A d \in T : g[d] = f[d] /\ f[d] \in Nat
    BY <1>4, <2>4
  <2>6. Counted(f, c) \in Nat /\ g[c] = Counted(f, c)
    BY <2>2, <2>3, <2>5, CountedGreater
  <2>7. ASSUME NEW d \in T \cup {c}
        PROVE  g[d] \in Nat /\ g[d] = Counted(g, d)
    <3>1. Dependencies(d) \subseteq T /\ d \in Contract
      <4>1. CASE d = c
        BY <4>1, <2>2, <2>3
      <4>2. CASE d \in T
        BY <4>2, <1>5 DEF Sound
      <4> QED
        BY <4>1, <4>2
    <3>2. Counted(f, d) = Counted(g, d)
      <4> HIDE DEF g, T
      <4> QED
        BY <3>1, <2>5, CountedSame
    <3>3. CASE d = c
      <4> HIDE DEF g
      <4> QED
        BY <3>2, <3>3, <2>6
    <3>4. CASE d # c
      BY <3>2, <3>4, <2>5, <1>4
    <3> QED
      BY <3>3, <3>4
  <2>8. Closed(T \cup {c})
    BY <1>5, <2>3
  <2>9. Solves(g, T \cup {c})
    BY <2>7
  <2>10. U \ {c} \in Left
    <3> HIDE DEF g, T, Solves, Closed
    <3> QED
      BY <1>5, <2>4, <2>8, <2>9
  <2> QED
    BY <2>10, <1>3
<1>7. T = Sound
  BY <1>6
<1> DEFINE h == [c \in Sound |-> f[c]]
<1>8. ASSUME NEW c \in Sound PROVE h[c] = Counted(h, c)
  <2>1. f[c] = Counted(f, c) /\ c \in Contract /\ Dependencies(c) \subseteq Sound
    BY <1>4, <1>5, <1>7 DEF Sound
  <2>2. \A d \in Dependencies(c) : f[d] \in Nat /\ f[d] = h[d]
    BY <1>4, <1>7, <2>1
  <2> HIDE DEF h
  <2>3. Counted(f, c) = Counted(h, c)
    BY <2>1, <2>2, CountedSame
  <2> QED
    BY <2>1, <2>3 DEF h
<1>9. h = [c \in Sound |-> h[c]]
  OBVIOUS
<1> HIDE DEF h
<1>10. h = [c \in Sound |-> Counted(h, c)]
  BY <1>8, <1>9
<1> QED
  BY <1>10

\* So the count of a contract is a number greater than that of any other which
\* it depends on.
LEMMA CountsDescend ==
    ASSUME ContractTypeOK, NEW c \in Sound
    PROVE  /\ DependenciesCount[c] \in Nat
           /\ \A d \in Dependencies(c) :
                 d \in Sound /\ DependenciesCount[d] < DependenciesCount[c]
<1> DEFINE f == DependenciesCount
<1>1. f = [d \in Sound |-> Counted(f, d)]
  <2>1. f = CHOOSE g : g = [d \in Sound |-> Counted(g, d)]
    BY DEF DependenciesCount, Counted, Sound
  <2> HIDE DEF f
  <2> QED
    BY <2>1, CountExists
<1> HIDE DEF f
<1> DEFINE Bad == {d \in Sound : f[d] \notin Nat}
<1>2. Bad = {}
  <2> SUFFICES ASSUME Bad # {} PROVE FALSE
    OBVIOUS
  <2>1. PICK d \in Bad : Dependencies(d) \cap Bad = {}
    BY SoundIsClosed
  <2>2. d \in Sound /\ d \in Contract /\ f[d] \notin Nat
    BY DEF Sound
  <2>3. Dependencies(d) \subseteq Sound
    BY <2>2, SoundIsClosed, DependenciesOf
  <2>4. \A e \in Dependencies(d) : f[e] \in Nat
    BY <2>1, <2>3
  <2>5. Counted(f, d) \in Nat
    BY <2>2, <2>4, CountedGreater
  <2> QED
    BY <1>1, <2>2, <2>5
<1>3. c \in Contract /\ Dependencies(c) \subseteq Sound
  BY SoundIsClosed, DependenciesOf DEF Sound
<1>4. \A d \in Dependencies(c) : f[d] \in Nat
  BY <1>2, <1>3
<1>5. \A d \in Dependencies(c) : f[d] < Counted(f, c)
  BY <1>3, <1>4, CountedGreater
<1>6. f[c] \in Nat /\ f[c] = Counted(f, c)
  BY <1>1, <1>2
<1> QED
  BY <1>3, <1>5, <1>6 DEF f

\* The order of a registry has its contracts, by ascending counts.
LEMMA OrderPermutes ==
    ASSUME RegistryTypeOK, ~Cyclic(RegisteredSet)
    PROVE  /\ Order(registered) \in Seq(Contract)
           /\ Len(Order(registered)) = Len(registered)
           /\ {Order(registered)[k] : k \in 1 .. Len(registered)} = RegisteredSet
           /\ IsInjective(registered) =>
                \A k, l \in 1 .. Len(registered) :
                   Order(registered)[k] = Order(registered)[l] => k = l
           /\ \A k, l \in 1 .. Len(registered) :
                 Order(registered)[k] \in Dependencies(Order(registered)[l])
                    => k < l
<1> DEFINE n == Len(registered)
           order == Order(registered)
<1>1. /\ registered \in Seq(Contract) /\ DOMAIN registered = 1 .. n
      /\ n \in Nat /\ ContractTypeOK
      /\ \A i \in 1 .. n : registered[i] \in Contract
  BY DEF RegistryTypeOK
<1>2. RegisteredSet = {registered[i] : i \in 1 .. n}
  BY <1>1 DEF RegisteredSet
<1>3. \A i \in 1 .. n : registered[i] \in Sound
  <2>1. RegisteredSet \cap Contract \subseteq Sound
    BY SoundIsClosed
  <2> QED
    BY <1>1, <1>2, <2>1
<1>4. \A i \in 1 .. n : DependenciesCount[registered[i]] \in Nat
  BY <1>1, <1>3, CountsDescend
<1> DEFINE f == DependenciesCount
<1>5. PICK p \in [1 .. n -> 1 .. n] :
        /\ Sorted(registered, f) = [k \in 1 .. n |-> registered[p[k]]]
        /\ \A i \in 1 .. n : \E k \in 1 .. n : p[k] = i
        /\ \A k, l \in 1 .. n : p[k] = p[l] => k = l
        /\ \A k, l \in 1 .. n : k < l => f[registered[p[k]]] =< f[registered[p[l]]]
  <2> HIDE DEF f
  <2>1. \A i \in 1 .. Len(registered) : f[registered[i]] \in Nat
    BY <1>4 DEF f
  <2> QED
    BY <1>1, <2>1, SortedPermutes
<1>6. order = [k \in 1 .. n |-> registered[p[k]]]
  BY <1>5 DEF Order
<1> HIDE DEF order, f
<1>7. order \in Seq(Contract) /\ Len(order) = n
  BY <1>1, <1>5, <1>6
<1>8. \A k \in 1 .. n : order[k] = registered[p[k]] /\ p[k] \in 1 .. n
  BY <1>5, <1>6
<1> HIDE DEF n
<1>9. {order[k] : k \in 1 .. n} = RegisteredSet
  <2>1. \A k \in 1 .. n : order[k] \in RegisteredSet
    BY <1>2, <1>8
  <2>2. \A c \in RegisteredSet : \E k \in 1 .. n : c = order[k]
    <3>1. ASSUME NEW i \in 1 .. n PROVE \E k \in 1 .. n : registered[i] = order[k]
      <4>1. PICK k \in 1 .. n : p[k] = i
        BY <1>5
      <4> QED
        BY <4>1, <1>8
    <3> QED
      BY <3>1, <1>2
  <2> QED
    BY <2>1, <2>2
<1>10. ASSUME IsInjective(registered), NEW k \in 1 .. n, NEW l \in 1 .. n,
              order[k] = order[l]
       PROVE  k = l
  BY <1>1, <1>5, <1>8, <1>10 DEF IsInjective
<1>11. ASSUME NEW k \in 1 .. n, NEW l \in 1 .. n,
              order[k] \in Dependencies(order[l])
       PROVE  k < l
  <2>1. order[k] \in Sound /\ order[l] \in Sound
    BY <1>3, <1>8
  <2>2. f[order[k]] < f[order[l]] /\ f[order[k]] \in Nat /\ f[order[l]] \in Nat
    BY <1>1, <1>11, <2>1, CountsDescend DEF f
  <2>3. k # l
    BY <2>2
  <2>4. ASSUME l < k PROVE FALSE
    <3>1. f[registered[p[l]]] =< f[registered[p[k]]]
      BY <1>5, <2>4
    <3>2. f[order[l]] =< f[order[k]]
      BY <1>8, <3>1
    <3> HIDE DEF f
    <3> QED
      BY <3>2, <2>2
  <2> QED
    BY <1>1, <2>3, <2>4
<1> QED
  BY <1>7, <1>9, <1>10, <1>11 DEF order, n

-----------------------------------------------------------------------------
\* What the first pass has made

LEMMA AddressedStep ==
    ASSUME NEW a \in Accumulator, NEW c \in Contract,
           NEW b, b = Addressed(a, c)
    PROVE  /\ \A d \in Contract :
                 /\ b.cs[d].state = a.cs[d].state /\ b.cs[d].data = a.cs[d].data
                 /\ d # c => b.cs[d] = a.cs[d]
                 /\ a.cs[d].address # NoAddress
                       => b.cs[d].address = a.cs[d].address
           /\ b.ok => a.ok /\ b.cs[c].address # NoAddress
           /\ a.ok /\ AddressMayChange(a.cs, c) => b.ok
           /\ b.ok /\ a.cs[c].address = NoAddress
                => b.cs[c].address = a.next /\ b.next = a.next + 1
<1>1. /\ a.cs \in [Contract -> Record] /\ a.next \in Nat /\ a.ok \in BOOLEAN
      /\ a = [cs |-> a.cs, next |-> a.next, ok |-> a.ok]
  BY DEF Accumulator
<1>2. CASE ~a.ok \/ ~AddressMayChange(a.cs, c)
  <2>1. b = [cs |-> a.cs, next |-> a.next, ok |-> FALSE]
    BY <1>1, <1>2 DEF Addressed
  <2> QED
    BY <2>1, <1>2
<1>3. CASE a.cs[c].address # NoAddress
           /\ ~(~a.ok \/ ~AddressMayChange(a.cs, c))
  <2>1. b = a
    BY <1>3 DEF Addressed
  <2> QED
    BY <2>1, <1>3
<1>4. CASE a.cs[c].address = NoAddress
           /\ ~(~a.ok \/ ~AddressMayChange(a.cs, c))
  <2> DEFINE r == [a.cs[c] EXCEPT !.address = a.next]
  <2>1. /\ r.address = a.next
        /\ r.state = a.cs[c].state /\ r.data = a.cs[c].data
    BY <1>1 DEF Record
  <2>2. b = [cs |-> [a.cs EXCEPT ![c] = r], next |-> a.next + 1, ok |-> TRUE]
    BY <1>4 DEF Addressed
  <2> HIDE DEF r
  <2>3. /\ b.cs[c] = r /\ b.next = a.next + 1 /\ b.ok = TRUE
        /\ \A d \in Contract : d # c => b.cs[d] = a.cs[d]
    BY <1>1, <2>2
  <2>4. a.next # NoAddress
    BY <1>1, ContractAssumption
  <2> QED
    BY <2>1, <2>3, <2>4, <1>4
<1> QED
  BY <1>2, <1>3, <1>4

FirstPass(order, start) ==
    InTurn(Addressed, [cs |-> contracts, next |-> start, ok |-> TRUE], order)

LEMMA AddressesGiven ==
    ASSUME ContractTypeOK, NEW order \in Seq(Contract), NEW start \in Nat,
           NEW g, g = FirstPass(order, start)
    PROVE  /\ g \in Accumulator
           /\ \A c \in Contract : /\ g.cs[c].state = contracts[c].state
                                  /\ g.cs[c].data = contracts[c].data
           /\ g.ok => \A i \in 1 .. Len(order) :
                         g.cs[order[i]].address # NoAddress
           /\ (\A i \in 1 .. Len(order) : AddressMayChange(contracts, order[i]))
                => g.ok
           /\ /\ g.ok
              /\ \A i \in 1 .. Len(order) : contracts[order[i]].address = NoAddress
              /\ \A i, j \in 1 .. Len(order) : order[i] = order[j] => i = j
              => \A i \in 1 .. Len(order) :
                    g.cs[order[i]].address = start + i - 1
<1> DEFINE n == Len(order)
           base == [cs |-> contracts, next |-> start, ok |-> TRUE]
<1>1. n \in Nat /\ \A i \in 1 .. n : order[i] \in Contract
  OBVIOUS
<1>2. base \in Accumulator
  BY DEF ContractTypeOK, Accumulator, Record
<1>3. PICK acc \in [0 .. n -> Accumulator] :
        /\ g = acc[n] /\ acc[0] = base
        /\ \A i \in 1 .. n : acc[i] = Addressed(acc[i - 1], order[i])
  BY <1>2, AddressedInTurn DEF FirstPass
<1>4. acc[0].cs = contracts /\ acc[0].next = start /\ acc[0].ok = TRUE
  BY <1>3
<1> HIDE DEF n, base
<1>5. 0 \in 0 .. n /\ n \in 0 .. n
  BY <1>1
<1>6. ASSUME NEW i \in 1 .. n
      PROVE  LET a == acc[i - 1]
                 b == acc[i]
                 c == order[i]
             IN  /\ \A d \in Contract :
                       /\ b.cs[d].state = a.cs[d].state
                       /\ b.cs[d].data = a.cs[d].data
                       /\ d # c => b.cs[d] = a.cs[d]
                       /\ a.cs[d].address # NoAddress
                             => b.cs[d].address = a.cs[d].address
                 /\ b.ok => a.ok /\ b.cs[c].address # NoAddress
                 /\ a.ok /\ AddressMayChange(a.cs, c) => b.ok
                 /\ b.ok /\ a.cs[c].address = NoAddress
                      => b.cs[c].address = a.next /\ b.next = a.next + 1
  <2>1. i - 1 \in 0 .. n /\ order[i] \in Contract
    BY <1>1
  <2>2. acc[i - 1] \in Accumulator /\ acc[i] = Addressed(acc[i - 1], order[i])
    BY <1>3, <2>1
  <2> QED
    BY <2>1, <2>2, AddressedStep
<1> DEFINE T == {i \in 0 .. n :
                   \A c \in Contract : /\ acc[i].cs[c].state = contracts[c].state
                                       /\ acc[i].cs[c].data = contracts[c].data}
<1>7. \A i \in 0 .. n : i \in T
  <2>1. 0 \in T
    BY <1>4, <1>5
  <2>2. ASSUME NEW i \in 1 .. n, i - 1 \in T PROVE i \in T
    <3>1. i \in 0 .. n
      BY <1>1
    <3> QED
      BY <3>1, <2>2, <1>6
  <2> HIDE DEF T
  <2> QED
    BY <1>1, <2>1, <2>2, AlongSequence
<1> DEFINE U == {i \in 0 .. n :
                   acc[i].ok => \A j \in 1 .. i :
                                   acc[i].cs[order[j]].address # NoAddress}
<1>8. \A i \in 0 .. n : i \in U
  <2>1. 0 \in U
    BY <1>5
  <2>2. ASSUME NEW i \in 1 .. n, i - 1 \in U PROVE i \in U
    <3>1. i \in 0 .. n
      BY <1>1
    <3>2. ASSUME acc[i].ok, NEW j \in 1 .. i
          PROVE  acc[i].cs[order[j]].address # NoAddress
      <4>1. CASE j = i
        BY <4>1, <3>2, <1>6
      <4>2. CASE j # i
        <5>1. j \in 1 .. i - 1 /\ order[j] \in Contract
          BY <4>2, <1>1
        <5> QED
          BY <5>1, <3>2, <2>2, <1>6
      <4> QED
        BY <4>1, <4>2
    <3> QED
      BY <3>1, <3>2
  <2> HIDE DEF U
  <2> QED
    BY <1>1, <2>1, <2>2, AlongSequence
<1>9. ASSUME \A i \in 1 .. n : AddressMayChange(contracts, order[i])
      PROVE  g.ok
  <2> DEFINE V == {i \in 0 .. n : acc[i].ok}
  <2>1. 0 \in V
    BY <1>4, <1>5
  <2>2. ASSUME NEW i \in 1 .. n, i - 1 \in V PROVE i \in V
    <3>1. i \in 0 .. n /\ i - 1 \in 0 .. n /\ order[i] \in Contract
      BY <1>1
    <3>2. AddressMayChange(acc[i - 1].cs, order[i])
      BY <3>1, <1>7, <1>9 DEF AddressMayChange
    <3> QED
      BY <3>1, <3>2, <2>2, <1>6
  <2> HIDE DEF V
  <2>3. n \in V
    BY <1>1, <1>5, <2>1, <2>2, AlongSequence
  <2> QED
    BY <2>3, <1>3 DEF V
<1>10. ASSUME g.ok,
              \A i \in 1 .. n : contracts[order[i]].address = NoAddress,
              \A i, j \in 1 .. n : order[i] = order[j] => i = j
       PROVE  \A i \in 1 .. n : g.cs[order[i]].address = start + i - 1
  <2> DEFINE W == {i \in 0 .. n :
                     acc[i].ok =>
                       /\ acc[i].next = start + i
                       /\ \A j \in 1 .. n :
                            acc[i].cs[order[j]].address
                              = IF j =< i THEN start + j - 1 ELSE NoAddress}
  <2>1. 0 \in W
    <3>1. \A j \in 1 .. n : ~(j =< 0)
      OBVIOUS
    <3> QED
      BY <3>1, <1>4, <1>5, <1>10
  <2>2. ASSUME NEW i \in 1 .. n, i - 1 \in W PROVE i \in W
    <3>1. i \in 0 .. n
      BY <1>1
    <3>2. SUFFICES ASSUME acc[i].ok
                   PROVE  /\ acc[i].next = start + i
                          /\ \A j \in 1 .. n :
                               acc[i].cs[order[j]].address
                                 = IF j =< i THEN start + j - 1 ELSE NoAddress
      BY <3>1
    <3>3. /\ acc[i - 1].ok /\ acc[i - 1].next = start + (i - 1)
          /\ \A j \in 1 .. n :
               acc[i - 1].cs[order[j]].address
                 = IF j =< i - 1 THEN start + j - 1 ELSE NoAddress
      BY <2>2, <3>2, <1>6
    <3>4. /\ acc[i].cs[order[i]].address = start + (i - 1)
          /\ acc[i].next = start + i
      <4>1. ~(i =< i - 1)
        OBVIOUS
      <4>2. acc[i - 1].cs[order[i]].address = NoAddress
        BY <4>1, <3>3
      <4>3. /\ acc[i].cs[order[i]].address = acc[i - 1].next
            /\ acc[i].next = acc[i - 1].next + 1
        BY <4>2, <3>2, <1>6
      <4> QED
        BY <4>3, <3>3
    <3>5. ASSUME NEW j \in 1 .. n, j # i
          PROVE  acc[i].cs[order[j]].address
                   = IF j =< i THEN start + j - 1 ELSE NoAddress
      <4>1. order[j] # order[i] /\ order[j] \in Contract
        BY <3>5, <1>1, <1>10
      <4>2. acc[i].cs[order[j]] = acc[i - 1].cs[order[j]]
        BY <4>1, <1>6
      <4>3. j =< i <=> j =< i - 1
        BY <3>5
      <4> QED
        BY <4>2, <4>3, <3>3
    <3>6. acc[i].cs[order[i]].address
            = IF i =< i THEN start + i - 1 ELSE NoAddress
      BY <3>4
    <3>7. \A j \in 1 .. n :
             acc[i].cs[order[j]].address
               = IF j =< i THEN start + j - 1 ELSE NoAddress
      BY <3>5, <3>6
    <3> QED
      BY <3>4, <3>7
  <2> HIDE DEF W
  <2>3. n \in W
    BY <1>1, <1>5, <2>1, <2>2, AlongSequence
  <2> QED
    BY <2>3, <1>3, <1>10 DEF W
<1>11. /\ g \in Accumulator
       /\ \A c \in Contract : /\ g.cs[c].state = contracts[c].state
                              /\ g.cs[c].data = contracts[c].data
       /\ g.ok => \A i \in 1 .. n : g.cs[order[i]].address # NoAddress
  BY <1>3, <1>5, <1>7, <1>8
<1> QED
  BY <1>9, <1>10, <1>11 DEF n

-----------------------------------------------------------------------------
\* What the second pass makes of it

LEMMA InstantiatedStep ==
    ASSUME ContractTypeOK, NEW a \in Accumulator, NEW c \in Contract,
           NEW b, b = InstantiatedNext(a, c)
    PROVE  /\ \A d \in Contract : /\ b.cs[d].address = a.cs[d].address
                                  /\ d # c => b.cs[d] = a.cs[d]
           /\ b.ok => /\ a.ok /\ a.cs[c].state = "new"
                      /\ b.cs[c].state = "instantiated"
                      /\ b.cs[c].data = {<<d, a.cs[d].address>> : d \in Dependencies(c)}
                      /\ \A d \in Dependencies(c) : Known(a.cs, d)
           /\ /\ a.ok /\ a.cs[c].state = "new"
              /\ \A d \in Dependencies(c) : Known(a.cs, d)
              /\ Placeholders[c] \subseteq linkReplacements[c]
              => b.ok /\ b.cs[c].state = "instantiated"
<1>1. a.cs \in [Contract -> Record] /\ a.next \in Nat /\ a.ok \in BOOLEAN
  BY DEF Accumulator
<1>2. CASE ~a.ok
  <2>1. b = a
    BY <1>2 DEF InstantiatedNext
  <2> QED
    BY <2>1, <1>2
<1>3. CASE a.ok
  <2> DEFINE i == Instantiated(a.cs, c)
             ok == a.cs[c].state = "new" /\ i[c].state = "instantiated"
  <2>1. b = [cs |-> i, next |-> a.next, ok |-> ok]
    BY <1>3 DEF InstantiatedNext
  <2>2. b.cs = i /\ b.ok = ok
    BY <2>1
  <2>3. /\ \A d \in Contract : /\ d # c => i[d] = a.cs[d]
                               /\ i[d].address = a.cs[d].address
        /\ ok => /\ \A d \in Dependencies(c) : Known(a.cs, d)
                 /\ i[c].data = {<<d, a.cs[d].address>> : d \in Dependencies(c)}
        /\ /\ a.cs[c].state = "new"
           /\ \A d \in Dependencies(c) : Known(a.cs, d)
           /\ Placeholders[c] \subseteq linkReplacements[c]
           => i[c].state = "instantiated"
    BY <1>1, InstantiatedType
  <2> HIDE DEF i
  <2> QED
    BY <1>3, <2>2, <2>3
<1> QED
  BY <1>2, <1>3

SecondPass(g, order) == InTurn(InstantiatedNext, g, order)

\* Of contracts that are all new, those in the order are instantiated, each
\* after what it depends on and with the addresses that the first pass gave.
LEMMA InstancesMade ==
    ASSUME ContractTypeOK, NEW order \in Seq(Contract), NEW g \in Accumulator,
           NEW r, r = SecondPass(g, order)
    PROVE  /\ r \in Accumulator
           /\ \A c \in Contract : r.cs[c].address = g.cs[c].address
           /\ r.ok => g.ok
           /\ /\ r.ok
              /\ \A c \in Contract : g.cs[c].state = "new"
              => /\ \A i, j \in 1 .. Len(order) : order[i] = order[j] => i = j
                 /\ \A i \in 1 .. Len(order) :
                      /\ r.cs[order[i]].data
                           = {<<d, g.cs[d].address>> : d \in Dependencies(order[i])}
                      /\ \A d \in Dependencies(order[i]) :
                           \E j \in 1 .. i - 1 : d = order[j]
<1> DEFINE n == Len(order)
<1>1. n \in Nat /\ \A i \in 1 .. n : order[i] \in Contract
  OBVIOUS
<1>2. PICK acc \in [0 .. n -> Accumulator] :
        /\ r = acc[n] /\ acc[0] = g
        /\ \A i \in 1 .. n : acc[i] = InstantiatedNext(acc[i - 1], order[i])
  BY InstantiatedInTurn DEF SecondPass
<1> HIDE DEF n
<1>3. 0 \in 0 .. n /\ n \in 0 .. n
  BY <1>1
<1>4. ASSUME NEW i \in 1 .. n
      PROVE  LET a == acc[i - 1]
                 b == acc[i]
                 c == order[i]
             IN  /\ \A d \in Contract : /\ b.cs[d].address = a.cs[d].address
                                        /\ d # c => b.cs[d] = a.cs[d]
                 /\ b.ok =>
                      /\ a.ok /\ a.cs[c].state = "new"
                      /\ b.cs[c].state = "instantiated"
                      /\ b.cs[c].data
                           = {<<d, a.cs[d].address>> : d \in Dependencies(c)}
                      /\ \A d \in Dependencies(c) : Known(a.cs, d)
  <2>1. i - 1 \in 0 .. n /\ order[i] \in Contract
    BY <1>1
  <2>2. /\ acc[i - 1] \in Accumulator
        /\ acc[i] = InstantiatedNext(acc[i - 1], order[i])
    BY <1>2, <2>1
  <2> QED
    BY <2>1, <2>2, InstantiatedStep
<1> DEFINE T == {i \in 0 .. n :
                   \A c \in Contract : acc[i].cs[c].address = g.cs[c].address}
<1>5. \A i \in 0 .. n : i \in T
  <2>1. 0 \in T
    BY <1>2, <1>3
  <2>2. ASSUME NEW i \in 1 .. n, i - 1 \in T PROVE i \in T
    <3>1. i \in 0 .. n
      BY <1>1
    <3> QED
      BY <3>1, <2>2, <1>4
  <2> HIDE DEF T
  <2> QED
    BY <1>1, <2>1, <2>2, AlongSequence
<1>b. r.ok => g.ok
  <2> DEFINE V == {i \in 0 .. n : acc[i].ok => g.ok}
  <2>1. 0 \in V
    BY <1>2, <1>3
  <2>2. ASSUME NEW i \in 1 .. n, i - 1 \in V PROVE i \in V
    <3>1. i \in 0 .. n
      BY <1>1
    <3> QED
      BY <3>1, <2>2, <1>4
  <2> HIDE DEF V
  <2>3. n \in V
    BY <1>1, <1>3, <2>1, <2>2, AlongSequence
  <2> QED
    BY <2>3, <1>2 DEF V
<1> DEFINE Made(i) ==
             /\ \A c \in Contract : acc[i].cs[c].state = "instantiated"
                                      <=> \E j \in 1 .. i : c = order[j]
             /\ \A j, k \in 1 .. i : order[j] = order[k] => j = k
             /\ \A j \in 1 .. i :
                  /\ acc[i].cs[order[j]].data
                       = {<<d, g.cs[d].address>> : d \in Dependencies(order[j])}
                  /\ \A d \in Dependencies(order[j]) :
                       \E k \in 1 .. j - 1 : d = order[k]
           U == {i \in 0 .. n : acc[i].ok => Made(i)}
<1>6. ASSUME \A c \in Contract : g.cs[c].state = "new"
      PROVE  \A i \in 0 .. n : i \in U
  <2>1. 0 \in U
    BY <1>2, <1>3, <1>6
  <2>2. ASSUME NEW i \in 1 .. n, i - 1 \in U PROVE i \in U
    <3>1. i \in 0 .. n /\ i - 1 \in 0 .. n /\ order[i] \in Contract
      BY <1>1
    <3>2. SUFFICES ASSUME acc[i].ok PROVE Made(i)
      BY <3>1
    <3>3. /\ Made(i - 1) /\ acc[i - 1].cs[order[i]].state = "new"
          /\ acc[i].cs[order[i]].state = "instantiated"
          /\ acc[i].cs[order[i]].data
               = {<<d, acc[i - 1].cs[d].address>> : d \in Dependencies(order[i])}
          /\ \A d \in Dependencies(order[i]) : Known(acc[i - 1].cs, d)
      BY <2>2, <3>2, <1>4
    <3>4. \A j \in 1 .. i - 1 : order[j] # order[i] /\ order[j] \in Contract
      BY <3>1, <3>3, <1>1
    <3>5. \A j \in 1 .. i - 1 : acc[i].cs[order[j]] = acc[i - 1].cs[order[j]]
      BY <3>4, <1>4
    <3>6. Dependencies(order[i]) \subseteq Contract
      BY <3>1, ContractAssumption DEF Dependencies, ContractTypeOK
    <3>7. ASSUME NEW c \in Contract
          PROVE  acc[i].cs[c].state = "instantiated"
                   <=> \E j \in 1 .. i : c = order[j]
      <4>1. CASE c = order[i]
        <5>1. i \in 1 .. i
          OBVIOUS
        <5> QED
          BY <5>1, <4>1, <3>3
      <4>2. CASE c # order[i]
        <5>1. acc[i].cs[c] = acc[i - 1].cs[c]
          BY <4>2, <1>4
        <5>2. (\E j \in 1 .. i : c = order[j])
                 <=> \E j \in 1 .. i - 1 : c = order[j]
          BY <4>2
        <5> QED
          BY <5>1, <5>2, <3>3
      <4> QED
        BY <4>1, <4>2
    <3>8. ASSUME NEW j \in 1 .. i, NEW k \in 1 .. i, order[j] = order[k]
          PROVE  j = k
      <4>1. CASE j = i /\ k # i
        BY <4>1, <3>4, <3>8
      <4>2. CASE k = i /\ j # i
        BY <4>2, <3>4, <3>8
      <4>3. CASE j # i /\ k # i
        BY <4>3, <3>3, <3>8
      <4> QED
        BY <4>1, <4>2, <4>3
    <3>9. ASSUME NEW j \in 1 .. i
          PROVE  /\ acc[i].cs[order[j]].data
                      = {<<d, g.cs[d].address>> : d \in Dependencies(order[j])}
                 /\ \A d \in Dependencies(order[j]) :
                      \E k \in 1 .. j - 1 : d = order[k]
      <4>1. CASE j = i
        <5>1. \A d \in Dependencies(order[i]) :
                 acc[i - 1].cs[d].address = g.cs[d].address
          BY <3>1, <3>6, <1>5
        <5>2. \A d \in Dependencies(order[i]) :
                 \E k \in 1 .. i - 1 : d = order[k]
          BY <3>3, <3>6 DEF Known
        <5> QED
          BY <5>1, <5>2, <4>1, <3>3
      <4>2. CASE j # i
        <5>1. j \in 1 .. i - 1
          BY <4>2
        <5> QED
          BY <5>1, <3>3, <3>5
      <4> QED
        BY <4>1, <4>2
    <3> QED
      BY <3>7, <3>8, <3>9
  <2> HIDE DEF U
  <2> QED
    BY <1>1, <2>1, <2>2, AlongSequence
<1>7. ASSUME r.ok, \A c \in Contract : g.cs[c].state = "new"
      PROVE  Made(n)
  <2>1. acc[n].ok
    BY <1>2, <1>7
  <2>2. n \in U
    BY <1>3, <1>6, <1>7
  <2> HIDE DEF Made
  <2> QED
    BY <2>1, <2>2
<1>8. \A c \in Contract : r.cs[c].address = g.cs[c].address
  BY <1>2, <1>3, <1>5
<1>9. r \in Accumulator
  BY <1>2, <1>3
<1> QED
  BY <1>7, <1>8, <1>9, <1>b, <1>2 DEF n

\* New contracts, all linked and each after what it depends on, can be
\* instantiated.
LEMMA InstancesSucceed ==
    ASSUME ContractTypeOK, NEW order \in Seq(Contract), NEW g \in Accumulator,
           g.ok,
           \A i \in 1 .. Len(order) :
             /\ g.cs[order[i]].state = "new"
             /\ g.cs[order[i]].address # NoAddress
             /\ Placeholders[order[i]] \subseteq linkReplacements[order[i]]
             /\ \A d \in Dependencies(order[i]) :
                  \E j \in 1 .. i - 1 : d = order[j],
           \A i, j \in 1 .. Len(order) : order[i] = order[j] => i = j
    PROVE  SecondPass(g, order).ok
<1> DEFINE n == Len(order)
           r == SecondPass(g, order)
<1>1. n \in Nat /\ \A i \in 1 .. n : order[i] \in Contract
  OBVIOUS
<1>2. PICK acc \in [0 .. n -> Accumulator] :
        /\ r = acc[n] /\ acc[0] = g
        /\ \A i \in 1 .. n : acc[i] = InstantiatedNext(acc[i - 1], order[i])
  BY InstantiatedInTurn DEF SecondPass
<1>a. /\ \A i \in 1 .. n :
           /\ g.cs[order[i]].state = "new"
           /\ g.cs[order[i]].address # NoAddress
           /\ Placeholders[order[i]] \subseteq linkReplacements[order[i]]
           /\ \A d \in Dependencies(order[i]) : \E j \in 1 .. i - 1 : d = order[j]
      /\ \A i, j \in 1 .. n : order[i] = order[j] => i = j
  OBVIOUS
<1> HIDE DEF n, r
<1>3. 0 \in 0 .. n /\ n \in 0 .. n
  BY <1>1
<1>4. ASSUME NEW i \in 1 .. n
      PROVE  LET a == acc[i - 1]
                 b == acc[i]
                 c == order[i]
             IN  /\ \A d \in Contract : /\ b.cs[d].address = a.cs[d].address
                                        /\ d # c => b.cs[d] = a.cs[d]
                 /\ /\ a.ok /\ a.cs[c].state = "new"
                    /\ \A d \in Dependencies(c) : Known(a.cs, d)
                    /\ Placeholders[c] \subseteq linkReplacements[c]
                    => b.ok /\ b.cs[c].state = "instantiated"
  <2>1. i - 1 \in 0 .. n /\ order[i] \in Contract
    BY <1>1
  <2>2. /\ acc[i - 1] \in Accumulator
        /\ acc[i] = InstantiatedNext(acc[i - 1], order[i])
    BY <1>2, <2>1
  <2> QED
    BY <2>1, <2>2, InstantiatedStep
<1> DEFINE Done(i) ==
             /\ acc[i].ok
             /\ \A j \in 1 .. i : Known(acc[i].cs, order[j])
             /\ \A j \in i + 1 .. n : acc[i].cs[order[j]] = g.cs[order[j]]
           T == {i \in 0 .. n : Done(i)}
<1>5. 0 \in T
  BY <1>2, <1>3
<1>6. ASSUME NEW i \in 1 .. n, i - 1 \in T PROVE i \in T
  <2>1. i \in 0 .. n /\ i - 1 \in 0 .. n /\ order[i] \in Contract
        /\ i \in (i - 1) + 1 .. n
    BY <1>1
  <2>2. Done(i - 1)
    BY <1>6
  <2>3. acc[i - 1].cs[order[i]] = g.cs[order[i]]
    BY <2>1, <2>2
  <2>4. \A d \in Dependencies(order[i]) : Known(acc[i - 1].cs, d)
    <3>1. ASSUME NEW d \in Dependencies(order[i])
          PROVE  Known(acc[i - 1].cs, d)
      <4>1. PICK j \in 1 .. i - 1 : d = order[j]
        BY <1>a
      <4> QED
        BY <4>1, <2>2
    <3> QED
      BY <3>1
  <2>a. /\ acc[i - 1].cs[order[i]].state = "new"
        /\ acc[i - 1].cs[order[i]].address # NoAddress
        /\ Placeholders[order[i]] \subseteq linkReplacements[order[i]]
        /\ acc[i - 1].ok
    BY <2>2, <2>3, <1>a
  <2>5. acc[i].ok /\ acc[i].cs[order[i]].state = "instantiated"
    BY <2>a, <2>4, <1>4
  <2>6. acc[i].cs[order[i]].address # NoAddress
    BY <2>1, <2>a, <1>4
  <2>7. \A j \in 1 .. n : j # i =>
           acc[i].cs[order[j]] = acc[i - 1].cs[order[j]]
    <3>1. ASSUME NEW j \in 1 .. n, j # i
          PROVE  acc[i].cs[order[j]] = acc[i - 1].cs[order[j]]
      <4>1. order[j] # order[i] /\ order[j] \in Contract
        BY <3>1, <1>1, <1>a
      <4> QED
        BY <4>1, <1>4
    <3> QED
      BY <3>1
  <2>8. ASSUME NEW j \in 1 .. i PROVE Known(acc[i].cs, order[j])
    <3>1. CASE j = i
      BY <3>1, <2>5, <2>6 DEF Known
    <3>2. CASE j # i
      <4>1. j \in 1 .. i - 1 /\ j \in 1 .. n
        BY <3>2, <1>1
      <4>2. acc[i].cs[order[j]] = acc[i - 1].cs[order[j]]
        BY <4>1, <3>2, <2>7
      <4> QED
        BY <4>1, <4>2, <2>2 DEF Known
    <3> QED
      BY <3>1, <3>2
  <2>9. ASSUME NEW j \in i + 1 .. n PROVE acc[i].cs[order[j]] = g.cs[order[j]]
    <3>1. j \in (i - 1) + 1 .. n /\ j \in 1 .. n /\ j # i
      BY <1>1
    <3> QED
      BY <3>1, <2>2, <2>7
  <2> QED
    BY <2>1, <2>5, <2>8, <2>9
<1> HIDE DEF T
<1>7. n \in T
  BY <1>1, <1>3, <1>5, <1>6, AlongSequence
<1> QED
  BY <1>7, <1>2 DEF T, r

-----------------------------------------------------------------------------
\* Plans

Makes(order, start, plan) ==
    /\ plan \in Accumulator
    /\ plan.ok => \A i \in 1 .. Len(order) : plan.cs[order[i]].address \in Nat
    /\ /\ plan.ok
       /\ \A c \in Contract : contracts[c] = New
       => /\ \A i, j \in 1 .. Len(order) : order[i] = order[j] => i = j
          /\ \A i \in 1 .. Len(order) :
               /\ plan.cs[order[i]].address = start + i - 1
               /\ \A ref \in plan.cs[order[i]].data :
                    \E j \in 1 .. i - 1 : ref = <<order[j], start + j - 1>>

LEMMA PlanMade ==
    ASSUME ContractTypeOK, NEW order \in Seq(Contract), NEW start \in Nat,
           NEW plan, plan = Planned(order, start)
    PROVE  Makes(order, start, plan)
<1> DEFINE n == Len(order)
           g == FirstPass(order, start)
           r == SecondPass(g, order)
<1>1. n \in Nat /\ \A i \in 1 .. n : order[i] \in Contract
  OBVIOUS
<1>2. plan = IF g.ok THEN r ELSE g
  BY DEF Planned, FirstPass, SecondPass
<1>3. /\ g \in Accumulator
      /\ \A c \in Contract : g.cs[c].state = contracts[c].state
      /\ g.ok => \A i \in 1 .. n : g.cs[order[i]].address # NoAddress
      /\ /\ g.ok
         /\ \A i \in 1 .. n : contracts[order[i]].address = NoAddress
         /\ \A i, j \in 1 .. n : order[i] = order[j] => i = j
         => \A i \in 1 .. n : g.cs[order[i]].address = start + i - 1
  BY AddressesGiven
<1> HIDE DEF g
<1>4. /\ r \in Accumulator
      /\ \A c \in Contract : r.cs[c].address = g.cs[c].address
      /\ r.ok => g.ok
      /\ /\ r.ok
         /\ \A c \in Contract : g.cs[c].state = "new"
         => /\ \A i, j \in 1 .. n : order[i] = order[j] => i = j
            /\ \A i \in 1 .. n :
                 /\ r.cs[order[i]].data
                      = {<<d, g.cs[d].address>> : d \in Dependencies(order[i])}
                 /\ \A d \in Dependencies(order[i]) :
                      \E j \in 1 .. i - 1 : d = order[j]
  BY <1>3, InstancesMade
<1> HIDE DEF r, n
<1>5. plan \in Accumulator /\ (plan.ok => g.ok /\ plan = r)
  BY <1>2, <1>3, <1>4
<1>6. ASSUME plan.ok, NEW i \in 1 .. n PROVE plan.cs[order[i]].address \in Nat
  <2>1. plan = r /\ r.cs \in [Contract -> Record] /\ order[i] \in Contract
    BY <1>1, <1>4, <1>5, <1>6 DEF Accumulator
  <2>2. r.cs[order[i]].address # NoAddress
    BY <2>1, <1>3, <1>4, <1>5, <1>6
  <2> QED
    BY <2>1, <2>2 DEF Record
<1>7. ASSUME plan.ok, \A c \in Contract : contracts[c] = New
      PROVE  /\ \A i, j \in 1 .. n : order[i] = order[j] => i = j
             /\ \A i \in 1 .. n :
                  /\ plan.cs[order[i]].address = start + i - 1
                  /\ \A ref \in plan.cs[order[i]].data :
                       \E j \in 1 .. i - 1 : ref = <<order[j], start + j - 1>>
  <2>1. g.ok /\ plan = r
    BY <1>5, <1>7
  <2>2. \A c \in Contract : contracts[c].state = "new"
                            /\ contracts[c].address = NoAddress
    BY <1>7 DEF New
  <2>3. \A c \in Contract : g.cs[c].state = "new"
    BY <2>2, <1>3
  <2>4. /\ \A i, j \in 1 .. n : order[i] = order[j] => i = j
        /\ \A i \in 1 .. n :
             /\ r.cs[order[i]].data
                  = {<<d, g.cs[d].address>> : d \in Dependencies(order[i])}
             /\ \A d \in Dependencies(order[i]) :
                  \E j \in 1 .. i - 1 : d = order[j]
    BY <2>1, <2>3, <1>4, <1>7
  <2>5. \A i \in 1 .. n : contracts[order[i]].address = NoAddress
    BY <2>2, <1>1
  <2>6. \A i \in 1 .. n : g.cs[order[i]].address = start + i - 1
    BY <2>1, <2>4, <2>5, <1>3
  <2>7. ASSUME NEW i \in 1 .. n, NEW ref \in plan.cs[order[i]].data
        PROVE  \E j \in 1 .. i - 1 : ref = <<order[j], start + j - 1>>
    <3>1. PICK d \in Dependencies(order[i]) : ref = <<d, g.cs[d].address>>
      BY <2>1, <2>4
    <3>2. PICK j \in 1 .. i - 1 : d = order[j]
      BY <2>4
    <3>3. j \in 1 .. n
      BY <1>1
    <3>4. g.cs[d].address = start + j - 1
      BY <3>2, <3>3, <2>6
    <3> QED
      BY <3>1, <3>2, <3>4
  <2>8. \A i \in 1 .. n : plan.cs[order[i]].address = start + i - 1
    BY <2>1, <2>6, <1>1, <1>4
  <2> QED
    BY <2>4, <2>7, <2>8
<1> QED
  BY <1>5, <1>6, <1>7 DEF n, Makes

LEMMA PlanSucceeds ==
    ASSUME ContractTypeOK, NEW order \in Seq(Contract), NEW start \in Nat,
           \A i \in 1 .. Len(order) :
             /\ contracts[order[i]].state = "new"
             /\ Placeholders[order[i]] \subseteq linkReplacements[order[i]]
             /\ \A d \in Dependencies(order[i]) :
                  \E j \in 1 .. i - 1 : d = order[j],
           \A i, j \in 1 .. Len(order) : order[i] = order[j] => i = j
    PROVE  Planned(order, start).ok
<1> DEFINE g == FirstPass(order, start)
<1>1. \A i \in 1 .. Len(order) : order[i] \in Contract
  OBVIOUS
<1>2. \A i \in 1 .. Len(order) : AddressMayChange(contracts, order[i])
  BY <1>1 DEF AddressMayChange
<1>3. /\ g \in Accumulator /\ g.ok
      /\ \A c \in Contract : g.cs[c].state = contracts[c].state
      /\ \A i \in 1 .. Len(order) : g.cs[order[i]].address # NoAddress
  <2>2. /\ g \in Accumulator
        /\ \A c \in Contract : g.cs[c].state = contracts[c].state
        /\ g.ok => \A i \in 1 .. Len(order) :
                      g.cs[order[i]].address # NoAddress
        /\ (\A i \in 1 .. Len(order) : AddressMayChange(contracts, order[i]))
             => g.ok
    BY AddressesGiven
  <2> QED
    BY <2>2, <1>2
<1>4. Planned(order, start) = SecondPass(g, order)
  BY <1>3 DEF Planned, FirstPass, SecondPass
<1> HIDE DEF g
<1>5. \A i \in 1 .. Len(order) : g.cs[order[i]].state = "new"
  BY <1>1, <1>3
<1>6. SecondPass(g, order).ok
  BY <1>3, <1>5, InstancesSucceed
<1> QED
  BY <1>4, <1>6

-----------------------------------------------------------------------------
\* The registry

\* What a plan for transactions has made, where it was made.
PlannedFrom(start) ==
    /\ Len(transactions') = Len(registered')
    /\ \A i \in 1 .. Len(registered') :
         transactions'[i] = [contract |-> registered'[i],
                             nonce |-> start + i - 1,
                             address |-> contracts'[registered'[i]].address]
    /\ (\A c \in Contract : contracts[c] = New) =>
         /\ \A i, j \in 1 .. Len(registered') :
              registered'[i] = registered'[j] => i = j
         /\ \A i \in 1 .. Len(registered') :
              /\ contracts'[registered'[i]].address = start + i - 1
              /\ \A ref \in contracts'[registered'[i]].data :
                   \E j \in 1 .. i - 1 : ref = <<registered'[j], start + j - 1>>

LEMMA LivePlan ==
    ASSUME RegistryTypeOK, NEW start \in Nat, ToLiveTransactionObjects(start)
    PROVE  /\ RegistryTypeOK'
           /\ Len(registered') = Len(registered)
           /\ {registered'[k] : k \in 1 .. Len(registered)} = RegisteredSet
           /\ IF Planned(registered', start).ok
                THEN PlannedFrom(start)
                ELSE transactions' = transactions
<1>1. /\ ~Cyclic(RegisteredSet) /\ registered' = Order(registered)
      /\ linkReplacements' = linkReplacements
  BY DEF ToLiveTransactionObjects
<1>2. PICK order : order = Order(registered)
  OBVIOUS
<1>3. PICK plan : plan = Planned(order, start)
  OBVIOUS
<1>4. /\ order \in Seq(Contract) /\ Len(order) = Len(registered)
      /\ {order[k] : k \in 1 .. Len(registered)} = RegisteredSet
  BY <1>1, <1>2, OrderPermutes
<1>5. registered' = order /\ contracts' = plan.cs /\ genesis' = genesis
  BY <1>1, <1>2, <1>3 DEF ToLiveTransactionObjects
<1>6. transactions' =
        IF plan.ok
          THEN [i \in DOMAIN order |->
                  [contract |-> order[i], nonce |-> start + i - 1,
                   address |-> plan.cs[order[i]].address]]
          ELSE transactions
  <2>1. plan = Planned(registered', start)
    BY <1>3, <1>5
  <2> QED
    BY <2>1, <1>5 DEF ToLiveTransactionObjects
<1>7. ContractTypeOK /\ transactions \in Seq([contract : Contract, nonce : Nat,
                                              address : Nat])
      /\ genesis \subseteq Nat \X Contract
  BY DEF RegistryTypeOK
<1>8. /\ plan \in Accumulator
      /\ plan.ok => \A i \in 1 .. Len(order) : plan.cs[order[i]].address \in Nat
      /\ /\ plan.ok
         /\ \A c \in Contract : contracts[c] = New
         => /\ \A i, j \in 1 .. Len(order) : order[i] = order[j] => i = j
            /\ \A i \in 1 .. Len(order) :
                 /\ plan.cs[order[i]].address = start + i - 1
                 /\ \A ref \in plan.cs[order[i]].data :
                      \E j \in 1 .. i - 1 : ref = <<order[j], start + j - 1>>
  <2>1. Makes(order, start, plan)
    BY <1>3, <1>4, <1>7, PlanMade
  <2> QED
    BY <2>1 DEF Makes
<1>9. ContractTypeOK'
  BY <1>1, <1>5, <1>7, <1>8 DEF ContractTypeOK, Accumulator, Record
<1>10. /\ DOMAIN order = 1 .. Len(order) /\ Len(order) \in Nat
       /\ \A i \in 1 .. Len(order) : order[i] \in Contract
  BY <1>4
<1>11. CASE plan.ok
  <2> DEFINE t(i) == [contract |-> order[i], nonce |-> start + i - 1,
                      address |-> plan.cs[order[i]].address]
  <2>1. transactions' = [i \in 1 .. Len(order) |-> t(i)]
    BY <1>6, <1>10, <1>11
  <2>2. \A i \in 1 .. Len(order) :
           t(i) \in [contract : Contract, nonce : Nat, address : Nat]
    <3>1. ASSUME NEW i \in 1 .. Len(order)
          PROVE  t(i) \in [contract : Contract, nonce : Nat, address : Nat]
      <4>1. start + i - 1 \in Nat
        BY <1>10
      <4> QED
        BY <4>1, <1>8, <1>10, <1>11
    <3> QED
      BY <3>1
  <2> HIDE DEF t
  <2>3. /\ transactions' \in Seq([contract : Contract, nonce : Nat, address : Nat])
        /\ Len(transactions') = Len(order)
        /\ \A i \in 1 .. Len(order) : transactions'[i] = t(i)
    BY <2>1, <2>2, <1>10
  <2>4. RegistryTypeOK'
    BY <2>3, <1>4, <1>5, <1>7, <1>9 DEF RegistryTypeOK
  <2>5. PlannedFrom(start)
    <3>1. /\ Len(transactions') = Len(registered')
          /\ \A i \in 1 .. Len(registered') :
               transactions'[i] = [contract |-> registered'[i],
                             nonce |-> start + i - 1,
                             address |-> contracts'[registered'[i]].address]
      BY <2>3, <1>5 DEF t
    <3>2. ASSUME \A c \in Contract : contracts[c] = New
          PROVE  /\ \A i, j \in 1 .. Len(registered') :
                      registered'[i] = registered'[j] => i = j
                 /\ \A i \in 1 .. Len(registered') :
                      /\ contracts'[registered'[i]].address = start + i - 1
                      /\ \A ref \in contracts'[registered'[i]].data :
                           \E j \in 1 .. i - 1 :
                             ref = <<registered'[j], start + j - 1>>
      BY <3>2, <1>5, <1>8, <1>11
    <3> QED
      BY <3>1, <3>2 DEF PlannedFrom
  <2>6. Planned(registered', start).ok
    BY <1>3, <1>5, <1>11
  <2> QED
    BY <2>4, <2>5, <2>6, <1>4, <1>5
<1>12. CASE ~plan.ok
  <2>1. transactions' = transactions
    BY <1>6, <1>12
  <2>2. RegistryTypeOK'
    BY <2>1, <1>4, <1>5, <1>7, <1>9 DEF RegistryTypeOK
  <2>3. ~Planned(registered', start).ok
    BY <1>3, <1>5, <1>12
  <2> QED
    BY <2>1, <2>2, <2>3, <1>4, <1>5
<1> QED
  BY <1>11, <1>12

LEMMA GenesisPlan ==
    ASSUME RegistryTypeOK, NEW start \in Nat, ToParityGenesisAccounts(start)
    PROVE  RegistryTypeOK'
<1>1. /\ ~Cyclic(RegisteredSet) /\ registered' = Order(registered)
      /\ linkReplacements' = linkReplacements /\ transactions' = transactions
  BY DEF ToParityGenesisAccounts
<1>2. PICK order : order = Order(registered)
  OBVIOUS
<1>3. PICK plan : plan = Planned(order, start)
  OBVIOUS
<1>4. order \in Seq(Contract)
  BY <1>1, <1>2, OrderPermutes
<1>5. registered' = order /\ contracts' = plan.cs
  BY <1>1, <1>2, <1>3 DEF ToParityGenesisAccounts
<1>6. /\ ContractTypeOK /\ genesis \subseteq Nat \X Contract
      /\ transactions \in Seq([contract : Contract, nonce : Nat, address : Nat])
  BY DEF RegistryTypeOK
<1>7. /\ plan \in Accumulator
      /\ plan.ok => \A i \in 1 .. Len(order) : plan.cs[order[i]].address \in Nat
  BY <1>3, <1>4, <1>6, PlanMade DEF Makes
<1>8. ContractTypeOK'
  BY <1>1, <1>5, <1>6, <1>7 DEF ContractTypeOK, Accumulator, Record
<1>9. genesis' \subseteq Nat \X Contract
  <2> DEFINE last == {i \in DOMAIN order :
                        \A j \in i + 1 .. Len(order) :
                          plan.cs[order[j]].address # plan.cs[order[i]].address}
  <2>1. plan = Planned(registered', start)
    BY <1>3, <1>5
  <2>2. genesis' = IF plan.ok
                     THEN {<<plan.cs[order[i]].address, order[i]>> : i \in last}
                     ELSE genesis
    BY <2>1, <1>5 DEF ToParityGenesisAccounts
  <2>3. last \subseteq 1 .. Len(order)
    BY <1>4
  <2> HIDE DEF last
  <2>4. \A i \in 1 .. Len(order) : order[i] \in Contract
    BY <1>4
  <2>5. CASE plan.ok
    <3>1. \A i \in last : plan.cs[order[i]].address \in Nat /\ order[i] \in Contract
      BY <2>3, <2>4, <2>5, <1>7
    <3> QED
      BY <3>1, <2>2, <2>5
  <2>6. CASE ~plan.ok
    BY <2>2, <2>6, <1>6
  <2> QED
    BY <2>5, <2>6
<1> QED
  BY <1>1, <1>4, <1>5, <1>6, <1>8, <1>9 DEF RegistryTypeOK

\* The state of every contract, the order of the registry and what was planned
\* for are what the program's types make them, whatever throws.
THEOREM RegistryTypes == RegistrySpec => []RegistryTypeOK
<1>1. RegistryInit => RegistryTypeOK
  <2> SUFFICES ASSUME RegistryInit PROVE RegistryTypeOK
    OBVIOUS
  <2>1. New \in Record
    BY DEF New, Record
  <2>2. ContractTypeOK
    BY <2>1 DEF RegistryInit, ContractInit, ContractTypeOK, Record
  <2> QED
    BY <2>2 DEF RegistryInit, RegistryTypeOK
<1>2. RegistryTypeOK /\ [RegistryNext]_registryVars => RegistryTypeOK'
  <2> SUFFICES ASSUME RegistryTypeOK, [RegistryNext]_registryVars
               PROVE  RegistryTypeOK'
    OBVIOUS
  <2>1. /\ ContractTypeOK /\ registered \in Seq(Contract)
        /\ transactions \in Seq([contract : Contract, nonce : Nat, address : Nat])
        /\ genesis \subseteq Nat \X Contract
    BY DEF RegistryTypeOK
  <2>2. contracts \in [Contract -> Record]
        /\ linkReplacements \in [Contract -> SUBSET Contract]
    BY <2>1 DEF ContractTypeOK, Record
  <2>3. ASSUME NEW c \in Contract, NEW d \in Contract, AddLinkedDependency(c, d),
               UNCHANGED <<registered, transactions, genesis>>
        PROVE  RegistryTypeOK'
    <3>1. linkReplacements' \in [Contract -> SUBSET Contract]
      BY <2>2, <2>3 DEF AddLinkedDependency
    <3> QED
      BY <3>1, <2>1, <2>3
      DEF AddLinkedDependency, RegistryTypeOK, ContractTypeOK
  <2>4. ASSUME NEW c \in Contract, NEW a \in FixedAddresses, SetAddress(c, a),
               UNCHANGED <<registered, transactions, genesis>>
        PROVE  RegistryTypeOK'
    <3>1. [contracts[c] EXCEPT !.address = a] \in Record
      BY <2>2, ContractAssumption DEF Record
    <3>2. contracts' \in [Contract -> Record]
      BY <3>1, <2>2, <2>4 DEF SetAddress
    <3> QED
      BY <3>2, <2>1, <2>4
      DEF SetAddress, RegistryTypeOK, ContractTypeOK, Record
  <2>5. ASSUME NEW c \in Contract, Instantiate(c),
               UNCHANGED <<registered, transactions, genesis>>
        PROVE  RegistryTypeOK'
    <3>1. contracts' \in [Contract -> Record]
      BY <2>1, <2>2, <2>5, InstantiatedType DEF Instantiate
    <3> QED
      BY <3>1, <2>1, <2>5
      DEF Instantiate, RegistryTypeOK, ContractTypeOK, Record
  <2>6. ASSUME NEW c \in Contract, AddContract(c) PROVE RegistryTypeOK'
    <3>1. registered' \in Seq(Contract)
      BY <2>1, <2>6 DEF AddContract
    <3> QED
      BY <3>1, <2>1, <2>6
      DEF AddContract, RegistryTypeOK, ContractTypeOK, contractVars
  <2>7. ASSUME NEW start \in Starts,
               ToLiveTransactionObjects(start) \/ ToParityGenesisAccounts(start)
        PROVE  RegistryTypeOK'
    <3>1. start \in Nat
      BY StartsAssumption
    <3> QED
      BY <3>1, <2>7, LivePlan, GenesisPlan
  <2>8. CASE UNCHANGED registryVars
    BY <2>8 DEF RegistryTypeOK, ContractTypeOK, registryVars, contractVars
  <2> QED
    BY <2>3, <2>4, <2>5, <2>6, <2>7, <2>8 DEF RegistryNext, ContractNext
<1> QED
  BY <1>1, <1>2, PTL DEF RegistrySpec

\* Whatever contracts the tool is given, however they depend on each other and
\* in whatever order they are added: when they are new, complete and without a
\* cycle, they are planned, and each after all that it depends on
\* (_orderContracts, toLiveTransactionObjects).
THEOREM RegistryPlansWhatIsClosed == RegistrySpec => PlansWhatIsClosed
<1> DEFINE A == \A start \in Starts :
                  Plannable /\ ToLiveTransactionObjects(start) =>
                    /\ Len(transactions') = Len(registered)
                    /\ \A i, j \in DOMAIN transactions' :
                         transactions'[j].contract
                             \in Dependencies(transactions'[i].contract)
                           => j < i
<1>1. ASSUME RegistryTypeOK, NEW start \in Starts, Plannable,
             ToLiveTransactionObjects(start)
      PROVE  /\ Len(transactions') = Len(registered)
             /\ \A i, j \in DOMAIN transactions' :
                  transactions'[j].contract
                      \in Dependencies(transactions'[i].contract)
                    => j < i
  <2>1. start \in Nat /\ ContractTypeOK
    BY StartsAssumption, <1>1 DEF RegistryTypeOK
  <2>2. /\ IsInjective(registered) /\ ~Cyclic(RegisteredSet)
        /\ registered' = Order(registered)
        /\ \A c \in RegisteredSet :
             /\ contracts[c].state = "new"
             /\ Dependencies(c) \subseteq RegisteredSet
             /\ Placeholders[c] \subseteq linkReplacements[c]
    BY <1>1 DEF Plannable, ToLiveTransactionObjects
  <2>3. PICK order : order = registered'
    OBVIOUS
  <2>4. /\ order \in Seq(Contract) /\ Len(order) = Len(registered)
        /\ {order[k] : k \in 1 .. Len(registered)} = RegisteredSet
        /\ \A k, l \in 1 .. Len(registered) : order[k] = order[l] => k = l
        /\ \A k, l \in 1 .. Len(registered) :
             order[k] \in Dependencies(order[l]) => k < l
    BY <1>1, <2>2, <2>3, OrderPermutes
  <2>5. \A i \in 1 .. Len(order) :
           /\ contracts[order[i]].state = "new"
           /\ Placeholders[order[i]] \subseteq linkReplacements[order[i]]
           /\ \A d \in Dependencies(order[i]) : \E j \in 1 .. i - 1 : d = order[j]
    <3>1. ASSUME NEW i \in 1 .. Len(order)
          PROVE  /\ order[i] \in RegisteredSet
                 /\ \A d \in Dependencies(order[i]) :
                      \E j \in 1 .. i - 1 : d = order[j]
      <4>1. order[i] \in RegisteredSet
        BY <2>4
      <4>2. ASSUME NEW d \in Dependencies(order[i])
            PROVE  \E j \in 1 .. i - 1 : d = order[j]
        <5>1. PICK j \in 1 .. Len(registered) : d = order[j]
          BY <4>1, <2>2, <2>4
        <5>2. j < i
          BY <5>1, <2>4
        <5> QED
          BY <5>1, <5>2
      <4> QED
        BY <4>1, <4>2
    <3> QED
      BY <3>1, <2>2
  <2>6. Planned(order, start).ok
    BY <2>1, <2>4, <2>5, PlanSucceeds
  <2>7. PlannedFrom(start) /\ Len(registered') = Len(registered)
    BY <2>1, <2>3, <2>6, <1>1, LivePlan
  <2>8. /\ Len(transactions') = Len(order)
        /\ \A i \in 1 .. Len(order) : transactions'[i].contract = order[i]
    <3>1. \A i \in 1 .. Len(order) :
             transactions'[i] = [contract |-> order[i], nonce |-> start + i - 1,
                                 address |-> contracts'[order[i]].address]
      BY <2>3, <2>7 DEF PlannedFrom
    <3>2. Len(transactions') = Len(order)
      BY <2>3, <2>7 DEF PlannedFrom
    <3>3. ASSUME NEW i \in 1 .. Len(order)
          PROVE  transactions'[i].contract = order[i]
      <4>1. transactions'[i] = [contract |-> order[i], nonce |-> start + i - 1,
                                address |-> contracts'[order[i]].address]
        BY <3>1
      <4> QED
        BY <4>1
    <3> QED
      BY <3>2, <3>3
  <2>9. DOMAIN transactions' = 1 .. Len(order)
    <3>1. RegistryTypeOK'
      BY <2>1, <1>1, LivePlan
    <3>2. DOMAIN transactions' = 1 .. Len(transactions')
      BY <3>1 DEF RegistryTypeOK
    <3> QED
      BY <3>2, <2>8
  <2>10. ASSUME NEW i \in DOMAIN transactions', NEW j \in DOMAIN transactions',
                transactions'[j].contract \in Dependencies(transactions'[i].contract)
         PROVE  j < i
    BY <2>4, <2>8, <2>9, <2>10
  <2> QED
    BY <2>4, <2>8, <2>10
<1>2. RegistryTypeOK /\ [RegistryNext]_registryVars => [A]_registryVars
  BY <1>1
<1>3. RegistrySpec => [][A]_registryVars
  BY <1>2, RegistryTypes, PTL DEF RegistrySpec
<1> QED
  BY <1>3 DEF PlansWhatIsClosed

-----------------------------------------------------------------------------
\* Runs of the deployment script

\* Nothing is mined at a nonce that the deployer has not used.
ChainInv ==
    /\ count \in 0 .. MaxNonce + 1
    /\ code \in [0 .. MaxNonce -> [contract : Contract,
                                   refs : SUBSET (Contract \X Nat)] \cup {NoCode}]
    /\ \A a \in 0 .. MaxNonce : code[a] # NoCode => a < count
    /\ DependenciesAreDeployed

\* Until the plan is made, the contracts are new, and the nonces that are left
\* suffice for them.
UnplannedInv ==
    phase \in {"idle", "planning"} =>
        /\ \A c \in Contract : contracts[c] = New
        /\ transactions = <<>>
        /\ count + Len(Added) =< MaxNonce + 1
        /\ phase = "planning" => startingNonce =< count

DeployedAt(a, c) == code[a] # NoCode /\ code[a].contract = c

\* The plan: transactions with the nonces from startingNonce, each for a contract
\* at its address and with references to earlier ones.
ScheduleInv ==
    transactions # <<>> =>
        /\ startingNonce + Len(Added) =< MaxNonce + 1
        /\ Len(transactions) = Len(registered)
        /\ \A i \in 1 .. Len(registered) :
             /\ transactions[i] = [contract |-> registered[i],
                                   nonce |-> startingNonce + i - 1,
                                   address |-> contracts[registered[i]].address]
             /\ contracts[registered[i]].address = startingNonce + i - 1
             /\ \A ref \in contracts[registered[i]].data :
                  \E j \in 1 .. i - 1 :
                     ref = <<registered[j], startingNonce + j - 1>>

\* What was sent before the index is on the chain and reported.
ProgressInv ==
    /\ index \in 1 .. Len(registered) + 1
    /\ transactions = <<>> => index = 1 /\ phase \in {"idle", "planning", "failed"}
    /\ addresses = {<<registered[j], startingNonce + j - 1>> : j \in 1 .. index - 1}
    /\ \A j \in 1 .. index - 1 : DeployedAt(startingNonce + j - 1, registered[j])
    /\ phase \in {"sending", "sent", "mined"} => index =< Len(registered)
    /\ phase = "mined" =>
         DeployedAt(startingNonce + index - 1, registered[index])
    /\ phase = "done" => index = Len(registered) + 1

DeployInv ==
    /\ RegistryTypeOK
    /\ Len(registered) = Len(Added)
    /\ startingNonce \in Nat
    /\ phase \in {"idle", "planning", "sending", "sent", "mined", "done", "failed"}
    /\ ChainInv
    /\ UnplannedInv
    /\ ScheduleInv
    /\ ProgressInv

\* The registry and the starting nonce of a planned run do not change.
LEMMA ScheduleKept ==
    ASSUME RegistryTypeOK, ScheduleInv, UNCHANGED <<registryVars, startingNonce>>
    PROVE  RegistryTypeOK' /\ ScheduleInv'
<1>1. /\ contracts' = contracts /\ linkReplacements' = linkReplacements
      /\ registered' = registered /\ transactions' = transactions
      /\ genesis' = genesis /\ startingNonce' = startingNonce
  BY DEF registryVars, contractVars
<1>2. RegistryTypeOK'
  BY <1>1 DEF RegistryTypeOK, ContractTypeOK
<1>3. ScheduleInv'
  BY <1>1 DEF ScheduleInv
<1> QED
  BY <1>2, <1>3

\* The transaction under way, of a run that is not over.
LEMMA CurrentIsNext ==
    ASSUME DeployInv, phase \in {"sending", "sent", "mined"}
    PROVE  /\ transactions # <<>> /\ index \in 1 .. Len(registered)
           /\ Len(registered) \in Nat /\ Len(transactions) = Len(registered)
           /\ Current = [contract |-> registered[index],
                         nonce |-> startingNonce + index - 1,
                         address |-> contracts[registered[index]].address]
           /\ Current.contract = registered[index]
           /\ Current.nonce = startingNonce + index - 1
           /\ Current.nonce \in 0 .. MaxNonce
<1>1. /\ registered \in Seq(Contract) /\ Len(registered) = Len(Added)
      /\ startingNonce \in Nat /\ ScheduleInv /\ ProgressInv
  BY DEF DeployInv, RegistryTypeOK
<1>2. transactions # <<>> /\ index \in 1 .. Len(registered)
      /\ Len(registered) \in Nat
  BY <1>1 DEF ProgressInv
<1>3. /\ transactions[index] = [contract |-> registered[index],
                                nonce |-> startingNonce + index - 1,
                                address |-> contracts[registered[index]].address]
      /\ startingNonce + Len(Added) =< MaxNonce + 1
      /\ Len(transactions) = Len(registered)
  BY <1>1, <1>2 DEF ScheduleInv
<1>4. startingNonce + index - 1 \in 0 .. MaxNonce
  BY <1>1, <1>2, <1>3, DeploymentAssumption
<1>5. Current = [contract |-> registered[index],
                 nonce |-> startingNonce + index - 1,
                 address |-> contracts[registered[index]].address]
  BY <1>3 DEF Current
<1>6. Current.contract = registered[index]
      /\ Current.nonce = startingNonce + index - 1
  BY <1>5
<1> QED
  BY <1>2, <1>3, <1>4, <1>5, <1>6

LEMMA DeployInitially == DeployInit => DeployInv
<1> SUFFICES ASSUME DeployInit PROVE DeployInv
  OBVIOUS
<1>1. New \in Record
  BY DEF New, Record
<1>2. /\ contracts = [c \in Contract |-> New] /\ linkReplacements = Placeholders
      /\ registered = Added /\ transactions = <<>> /\ genesis = {}
      /\ phase = "idle" /\ startingNonce = 0 /\ index = 1 /\ addresses = {}
      /\ count = 0 /\ code = [a \in 0 .. MaxNonce |-> NoCode]
  BY DEF DeployInit
<1>3. RegistryTypeOK
  <2>1. contracts \in [Contract -> Record]
    BY <1>1, <1>2
  <2> QED
    BY <2>1, <1>2, ContractAssumption, DeploymentAssumption
    DEF RegistryTypeOK, ContractTypeOK, Record
<1>4. ChainInv
  <2>1. count \in 0 .. MaxNonce + 1 /\ \A a \in 0 .. MaxNonce : code[a] = NoCode
    BY <1>2, DeploymentAssumption
  <2> QED
    BY <2>1, <1>2 DEF ChainInv, DependenciesAreDeployed
<1>5. UnplannedInv
  <2>1. Len(Added) \in Nat
    BY DeploymentAssumption
  <2> QED
    BY <2>1, <1>2, DeploymentAssumption DEF UnplannedInv
<1>6. ScheduleInv
  BY <1>2 DEF ScheduleInv
<1>7. ProgressInv
  <2>1. Len(registered) \in Nat
    BY <1>2, DeploymentAssumption
  <2> QED
    BY <2>1, <1>2 DEF ProgressInv
<1> QED
  BY <1>2, <1>3, <1>4, <1>5, <1>6, <1>7 DEF DeployInv

LEMMA PlanKeeps == ASSUME DeployInv, Plan PROVE DeployInv'
<1>1. /\ RegistryTypeOK /\ startingNonce \in Nat /\ phase = "planning"
      /\ ToLiveTransactionObjects(startingNonce)
      /\ phase' = IF transactions' = <<>> THEN "failed" ELSE "sending"
      /\ startingNonce' = startingNonce /\ index' = index
      /\ addresses' = addresses /\ count' = count /\ code' = code
      /\ Len(registered) = Len(Added)
  BY DEF DeployInv, Plan, chainVars
<1>2. /\ \A c \in Contract : contracts[c] = New
      /\ transactions = <<>> /\ count + Len(Added) =< MaxNonce + 1
      /\ startingNonce =< count
  BY <1>1 DEF DeployInv, UnplannedInv
<1>3. /\ count \in 0 .. MaxNonce + 1 /\ ChainInv /\ index = 1 /\ addresses = {}
  <2>1. ProgressInv /\ ChainInv
    BY DEF DeployInv
  <2>2. index = 1
    BY <2>1, <1>2 DEF ProgressInv
  <2> QED
    BY <2>1, <2>2 DEF ProgressInv, ChainInv
<1>4. /\ RegistryTypeOK' /\ Len(registered') = Len(registered)
      /\ transactions' = <<>> \/ PlannedFrom(startingNonce)
  BY <1>1, <1>2, LivePlan
<1>5. Len(Added) \in Nat /\ MaxNonce \in Nat
  BY DeploymentAssumption
<1>6. ScheduleInv'
  <2> SUFFICES ASSUME transactions' # <<>> PROVE ScheduleInv'
    BY DEF ScheduleInv
  <2>1. PlannedFrom(startingNonce)
    BY <1>4
  <2>2. startingNonce' + Len(Added) =< MaxNonce + 1
    BY <1>1, <1>2, <1>3, <1>5
  <2>3. /\ Len(transactions') = Len(registered')
        /\ \A i \in 1 .. Len(registered') :
             /\ transactions'[i] = [contract |-> registered'[i],
                             nonce |-> startingNonce' + i - 1,
                             address |-> contracts'[registered'[i]].address]
             /\ contracts'[registered'[i]].address = startingNonce' + i - 1
             /\ \A ref \in contracts'[registered'[i]].data :
                  \E j \in 1 .. i - 1 :
                    ref = <<registered'[j], startingNonce' + j - 1>>
    BY <2>1, <1>1, <1>2 DEF PlannedFrom
  <2> QED
    BY <2>2, <2>3 DEF ScheduleInv
<1>7. ChainInv'
  BY <1>1, <1>3 DEF ChainInv, DependenciesAreDeployed
<1>8. UnplannedInv'
  BY <1>1 DEF UnplannedInv
<1>9. ProgressInv'
  <2>1. index' = 1 /\ addresses' = {} /\ Len(registered') \in Nat
    BY <1>1, <1>3, <1>4, <1>5
  <2>2. phase' = "sending" => index' =< Len(registered')
    <3>1. ASSUME transactions' # <<>> PROVE 1 =< Len(registered')
      <4>1. Len(transactions') = Len(registered')
        BY <1>4, <3>1 DEF PlannedFrom
      <4>2. transactions' \in Seq([contract : Contract, nonce : Nat, address : Nat])
        BY <1>4 DEF RegistryTypeOK
      <4>3. Len(transactions') \in Nat /\ Len(transactions') # 0
        BY <4>2, <3>1
      <4> QED
        BY <4>1, <4>3
    <3> QED
      BY <3>1, <2>1, <1>1
  <2>3. phase' \in {"sending", "failed"}
        /\ (transactions' = <<>> => phase' = "failed")
    BY <1>1
  <2> QED
    BY <2>1, <2>2, <2>3 DEF ProgressInv
<1> QED
  BY <1>1, <1>4, <1>6, <1>7, <1>8, <1>9 DEF DeployInv

LEMMA MineKeeps == ASSUME DeployInv, Mine PROVE DeployInv'
<1>1. /\ RegistryTypeOK /\ startingNonce \in Nat /\ phase = "sent"
      /\ ChainInv /\ UnplannedInv /\ ScheduleInv /\ ProgressInv
      /\ Len(registered) = Len(Added)
      /\ registered' = registered /\ contracts' = contracts
      /\ transactions' = transactions
      /\ startingNonce' = startingNonce /\ index' = index
      /\ addresses' = addresses
  BY DEF DeployInv, Mine, registryVars, contractVars
<1>2. RegistryTypeOK' /\ ScheduleInv'
  BY ScheduleKept DEF DeployInv, Mine
<1>3. /\ transactions # <<>> /\ index \in 1 .. Len(registered)
      /\ Len(registered) \in Nat
      /\ Current.contract = registered[index]
      /\ Current.nonce = startingNonce + index - 1
      /\ Current.nonce \in 0 .. MaxNonce
  BY <1>1, CurrentIsNext
<1>4. /\ count = startingNonce + index - 1 /\ count \in 0 .. MaxNonce
      /\ count' = count + 1
  BY <1>3 DEF Mine
<1> DEFINE Code == [contract : Contract, refs : SUBSET (Contract \X Nat)]
<1>5. /\ code \in [0 .. MaxNonce -> Code \cup {NoCode}]
      /\ \A a \in 0 .. MaxNonce : code[a] # NoCode => a < count
      /\ DependenciesAreDeployed
  BY <1>1 DEF ChainInv
<1>6. code[count] = NoCode
  BY <1>4, <1>5
<1>7. /\ \A j \in 1 .. index - 1 : DeployedAt(startingNonce + j - 1, registered[j])
      /\ phase' \in {"mined", "failed"}
  BY <1>1 DEF ProgressInv, Mine
<1>8. CASE phase' = "failed" /\ UNCHANGED code
  <2>1. ChainInv'
    BY <1>1, <1>4, <1>5, <1>8, DeploymentAssumption
    DEF ChainInv, DependenciesAreDeployed
  <2>2. ProgressInv'
    BY <1>1, <1>8 DEF ProgressInv, DeployedAt
  <2>3. UnplannedInv'
    BY <1>8 DEF UnplannedInv
  <2> QED
    BY <2>1, <2>2, <2>3, <1>1, <1>2, <1>8 DEF DeployInv
<1> DEFINE refs == contracts[registered[index]].data
           entry == [contract |-> registered[index], refs |-> refs]
<1>9. CASE phase' = "mined" /\ code' = [code EXCEPT ![count] = entry]
  <2>1. registered[index] \in Contract /\ refs \in SUBSET (Contract \X Nat)
    <3>1. registered[index] \in Contract
      BY <1>1, <1>3 DEF RegistryTypeOK
    <3>2. contracts \in [Contract -> Record]
      BY <1>1 DEF RegistryTypeOK, ContractTypeOK, Record
    <3> QED
      BY <3>1, <3>2 DEF Record
  <2>2. \A ref \in refs : \E j \in 1 .. index - 1 :
           ref = <<registered[j], startingNonce + j - 1>>
    BY <1>1, <1>3 DEF ScheduleInv
  <2> HIDE DEF refs
  <2>3. entry \in Code /\ entry # NoCode
    BY <2>1, DeploymentAssumption
  <2>4. entry.refs = refs /\ entry.contract = registered[index]
    OBVIOUS
  <2> HIDE DEF entry, Code
  <2>5. /\ code' \in [0 .. MaxNonce -> Code \cup {NoCode}]
        /\ code'[count] = entry
        /\ \A a \in 0 .. MaxNonce : a # count => code'[a] = code[a]
    BY <2>3, <1>4, <1>5, <1>9
  <2>6. \A a \in 0 .. MaxNonce : \A c : DeployedAt(a, c) =>
           code'[a] # NoCode /\ code'[a].contract = c
    BY <2>5, <1>6 DEF DeployedAt
  <2>7. \A j \in 1 .. index - 1 :
           /\ startingNonce + j - 1 \in 0 .. MaxNonce
           /\ startingNonce + j - 1 < count
           /\ code'[startingNonce + j - 1] # NoCode
           /\ code'[startingNonce + j - 1].contract = registered[j]
    <3>1. \A j \in 1 .. index - 1 :
             startingNonce + j - 1 \in 0 .. MaxNonce
             /\ startingNonce + j - 1 < count
      BY <1>1, <1>3, <1>4, DeploymentAssumption
    <3> QED
      BY <3>1, <2>6, <1>7
  <2>8. ASSUME NEW a \in 0 .. MaxNonce, code'[a] # NoCode,
               NEW ref \in code'[a].refs
        PROVE  /\ ref[2] < a
               /\ code'[ref[2]] # NoCode
               /\ code'[ref[2]].contract = ref[1]
    <3>1. CASE a = count
      <4>1. PICK j \in 1 .. index - 1 :
              ref = <<registered[j], startingNonce + j - 1>>
        BY <2>2, <2>4, <2>5, <2>8, <3>1
      <4>2. ref[1] = registered[j] /\ ref[2] = startingNonce + j - 1
        BY <4>1
      <4> QED
        BY <4>2, <3>1, <2>7
    <3>2. CASE a # count
      <4>1. code[a] # NoCode /\ ref \in code[a].refs
        BY <2>5, <2>8, <3>2
      <4>2. /\ ref[2] < a /\ code[ref[2]] # NoCode
            /\ code[ref[2]].contract = ref[1]
        BY <4>1, <1>5 DEF DependenciesAreDeployed
      <4>3. code[a] \in Code
        BY <4>1, <1>5
      <4>4. ref[2] \in Nat
        BY <4>1, <4>3 DEF Code
      <4>5. ref[2] \in 0 .. MaxNonce
        BY <4>2, <4>4, DeploymentAssumption
      <4>6. DeployedAt(ref[2], ref[1])
        BY <4>2 DEF DeployedAt
      <4> QED
        BY <4>2, <4>5, <4>6, <2>6
    <3> QED
      BY <3>1, <3>2
  <2>9. ChainInv'
    <3>1. count' \in 0 .. MaxNonce + 1
      BY <1>4, DeploymentAssumption
    <3>2. ASSUME NEW a \in 0 .. MaxNonce, code'[a] # NoCode PROVE a < count'
      <4>1. CASE a = count
        BY <4>1, <1>4
      <4>2. CASE a # count
        <5>1. a < count
          BY <4>2, <3>2, <2>5, <1>5
        <5> QED
          BY <5>1, <1>4
      <4> QED
        BY <4>1, <4>2
    <3>3. DependenciesAreDeployed'
      BY <2>8 DEF DependenciesAreDeployed
    <3> QED
      BY <3>1, <3>2, <3>3, <2>5 DEF ChainInv, Code
  <2>10. ProgressInv'
    <3>1. \A j \in 1 .. index - 1 :
             DeployedAt(startingNonce + j - 1, registered[j])'
      BY <2>7, <1>1 DEF DeployedAt
    <3>2. code'[startingNonce + index - 1] # NoCode
          /\ code'[startingNonce + index - 1].contract = registered[index]
      BY <2>3, <2>4, <2>5, <1>4
    <3> QED
      BY <3>1, <3>2, <1>1, <1>3, <1>9 DEF ProgressInv, DeployedAt
  <2>11. UnplannedInv'
    BY <1>9 DEF UnplannedInv
  <2> QED
    BY <2>9, <2>10, <2>11, <1>1, <1>2, <1>9 DEF DeployInv
<1>10. \/ phase' = "failed" /\ UNCHANGED code
       \/ phase' = "mined" /\ code' = [code EXCEPT ![count] = entry]
  BY <1>3 DEF Mine
<1> QED
  BY <1>8, <1>9, <1>10

LEMMA ReceiptKeeps == ASSUME DeployInv, Receipt PROVE DeployInv'
<1>1. /\ RegistryTypeOK /\ startingNonce \in Nat /\ phase = "mined"
      /\ ChainInv /\ ProgressInv /\ Len(registered) = Len(Added)
      /\ registered' = registered /\ transactions' = transactions
      /\ startingNonce' = startingNonce /\ index' = index + 1
      /\ count' = count /\ code' = code
  BY DEF DeployInv, Receipt, registryVars, contractVars, chainVars
<1>2. RegistryTypeOK' /\ ScheduleInv'
  BY ScheduleKept DEF DeployInv, Receipt
<1>3. /\ transactions # <<>> /\ index \in 1 .. Len(registered)
      /\ Len(registered) \in Nat /\ Len(transactions) = Len(registered)
      /\ Current.contract = registered[index]
      /\ Current.nonce = startingNonce + index - 1
  BY <1>1, CurrentIsNext
<1>4. /\ addresses' = addresses
            \cup {<<registered[index], startingNonce + index - 1>>}
      /\ phase' = IF index = Len(registered) THEN "done" ELSE "sending"
  BY <1>3 DEF Receipt
<1>5. ChainInv'
  BY <1>1 DEF ChainInv, DependenciesAreDeployed
<1>6. UnplannedInv'
  BY <1>4 DEF UnplannedInv
<1>7. ProgressInv'
  <2>1. /\ addresses = {<<registered[j], startingNonce + j - 1>> :
                        j \in 1 .. index - 1}
        /\ \A j \in 1 .. index - 1 :
             DeployedAt(startingNonce + j - 1, registered[j])
        /\ DeployedAt(startingNonce + index - 1, registered[index])
    BY <1>1 DEF ProgressInv
  <2>2. \A j \in 1 .. index' - 1 : j = index \/ j \in 1 .. index - 1
    BY <1>1, <1>3
  <2>3. \A j \in 1 .. index' - 1 :
           DeployedAt(startingNonce + j - 1, registered[j])'
    BY <2>1, <2>2, <1>1 DEF DeployedAt
  <2>4. addresses' = {<<registered[j], startingNonce + j - 1>> :
                      j \in 1 .. index' - 1}
    <3>1. index \in 1 .. index' - 1 /\ 1 .. index - 1 \subseteq 1 .. index' - 1
      BY <1>1, <1>3
    <3> QED
      BY <3>1, <2>1, <2>2, <1>4
  <2>5. index' \in 1 .. Len(registered') + 1
    BY <1>1, <1>3
  <2>6. /\ phase' \in {"sending", "sent", "mined"} => index' =< Len(registered')
        /\ phase' = "done" => index' = Len(registered') + 1
        /\ phase' # "mined"
    BY <1>1, <1>3, <1>4
  <2> QED
    BY <2>3, <2>4, <2>5, <2>6, <1>1, <1>3 DEF ProgressInv
<1> QED
  BY <1>1, <1>2, <1>4, <1>5, <1>6, <1>7 DEF DeployInv

LEMMA RerunKeeps == ASSUME DeployInv, Rerun PROVE DeployInv'
<1>1. /\ RegistryTypeOK /\ ChainInv /\ count + Len(Added) =< MaxNonce + 1
      /\ contracts' = [c \in Contract |-> New] /\ registered' = Added
      /\ transactions' = <<>> /\ phase' = "idle" /\ startingNonce' = 0
      /\ index' = 1 /\ addresses' = {} /\ linkReplacements' = linkReplacements
      /\ genesis' = genesis /\ count' = count /\ code' = code
  BY DEF DeployInv, Rerun, chainVars
<1>2. RegistryTypeOK'
  <2>1. New \in Record
    BY DEF New, Record
  <2>2. contracts' \in [Contract -> Record]
    BY <2>1, <1>1
  <2> QED
    BY <2>2, <1>1, DeploymentAssumption
    DEF RegistryTypeOK, ContractTypeOK, Record
<1>3. ChainInv'
  BY <1>1 DEF ChainInv, DependenciesAreDeployed
<1>4. UnplannedInv' /\ ScheduleInv'
  BY <1>1 DEF UnplannedInv, ScheduleInv
<1>5. ProgressInv'
  <2>1. Len(registered') \in Nat
    BY <1>1, DeploymentAssumption
  <2> QED
    BY <2>1, <1>1 DEF ProgressInv
<1> QED
  BY <1>1, <1>2, <1>3, <1>4, <1>5 DEF DeployInv

THEOREM DeployInvariant == DeploySpec => []DeployInv
<1>1. DeployInv /\ [DeployNext]_deployVars => DeployInv'
  <2> SUFFICES ASSUME DeployInv, [DeployNext]_deployVars PROVE DeployInv'
    OBVIOUS
  <2>1. /\ RegistryTypeOK /\ Len(registered) = Len(Added)
        /\ startingNonce \in Nat /\ ChainInv /\ UnplannedInv
        /\ ScheduleInv /\ ProgressInv
    BY DEF DeployInv
  <2>2. CASE GetTransactionCount
    <3>1. /\ phase = "idle" /\ phase' = "planning" /\ startingNonce' = count
          /\ index' = index /\ addresses' = addresses
          /\ count' = count /\ code' = code /\ contracts' = contracts
          /\ linkReplacements' = linkReplacements /\ registered' = registered
          /\ transactions' = transactions /\ genesis' = genesis
      BY <2>2 DEF GetTransactionCount, registryVars, contractVars, chainVars
    <3>2. RegistryTypeOK'
      BY <3>1, <2>1 DEF RegistryTypeOK, ContractTypeOK
    <3>3. ChainInv' /\ count \in Nat
      BY <3>1, <2>1 DEF ChainInv, DependenciesAreDeployed
    <3>4. transactions = <<>> /\ index = 1 /\ UnplannedInv'
      BY <3>1, <3>3, <2>1 DEF UnplannedInv, ProgressInv
    <3>5. ScheduleInv'
      BY <3>1, <3>4 DEF ScheduleInv
    <3>6. ProgressInv'
      BY <3>1, <3>4, <2>1 DEF ProgressInv
    <3> QED
      BY <3>1, <3>2, <3>3, <3>4, <3>5, <3>6, <2>1 DEF DeployInv
  <2>3. CASE Plan
    BY <2>3, PlanKeeps
  <2>4. CASE SendDeploymentTransaction \/ NotMined
    <3>1. /\ phase \in {"sending", "sent"} /\ phase' \in {"sent", "failed"}
          /\ UNCHANGED <<registryVars, startingNonce, index, addresses>>
          /\ registered' = registered /\ transactions' = transactions
          /\ startingNonce' = startingNonce /\ index' = index
          /\ addresses' = addresses /\ count' = count /\ code' = code
      BY <2>4 DEF SendDeploymentTransaction, NotMined, registryVars, chainVars
    <3>2. RegistryTypeOK' /\ ScheduleInv'
      BY <3>1, <2>1, ScheduleKept
    <3>3. ChainInv' /\ UnplannedInv'
      BY <3>1, <2>1 DEF ChainInv, DependenciesAreDeployed, UnplannedInv
    <3>4. ProgressInv'
      BY <3>1, <2>1 DEF ProgressInv, DeployedAt
    <3> QED
      BY <3>1, <3>2, <3>3, <3>4, <2>1 DEF DeployInv
  <2>5. CASE Mine
    BY <2>5, MineKeeps
  <2>6. CASE Receipt
    BY <2>6, ReceiptKeeps
  <2>7. CASE Rerun
    BY <2>7, RerunKeeps
  <2>8. CASE OtherTransaction
    <3>1. /\ count + Len(Added) =< MaxNonce /\ count' = count + 1 /\ code' = code
          /\ UNCHANGED <<registryVars, startingNonce>> /\ phase' = phase
          /\ contracts' = contracts
          /\ registered' = registered /\ transactions' = transactions
          /\ startingNonce' = startingNonce /\ index' = index
          /\ addresses' = addresses
      BY <2>8 DEF OtherTransaction, registryVars, contractVars, runVars
    <3>2. RegistryTypeOK' /\ ScheduleInv'
      BY <3>1, <2>1, ScheduleKept
    <3>3. /\ count \in 0 .. MaxNonce + 1 /\ Len(Added) \in Nat /\ MaxNonce \in Nat
          /\ \A a \in 0 .. MaxNonce : code[a] # NoCode => a < count
      BY <2>1, DeploymentAssumption DEF ChainInv
    <3>4. count' \in 0 .. MaxNonce + 1
      BY <3>1, <3>3
    <3>5. ChainInv'
      <4>1. \A a \in 0 .. MaxNonce : code'[a] # NoCode => a < count'
        BY <3>1, <3>3
      <4> QED
        BY <4>1, <3>1, <3>4, <2>1 DEF ChainInv, DependenciesAreDeployed
    <3>6. UnplannedInv'
      BY <3>1, <3>3, <2>1 DEF UnplannedInv
    <3>7. ProgressInv'
      BY <3>1, <2>1 DEF ProgressInv, DeployedAt
    <3> QED
      BY <3>1, <3>2, <3>5, <3>6, <3>7, <2>1 DEF DeployInv
  <2>9. CASE UNCHANGED deployVars
    <3>1. /\ UNCHANGED <<registryVars, startingNonce>> /\ phase' = phase
          /\ contracts' = contracts
          /\ registered' = registered /\ transactions' = transactions
          /\ startingNonce' = startingNonce /\ index' = index
          /\ addresses' = addresses /\ count' = count /\ code' = code
      BY <2>9 DEF deployVars, registryVars, contractVars, runVars, chainVars
    <3>2. RegistryTypeOK' /\ ScheduleInv'
      BY <3>1, <2>1, ScheduleKept
    <3>3. ChainInv' /\ UnplannedInv'
      BY <3>1, <2>1 DEF ChainInv, DependenciesAreDeployed, UnplannedInv
    <3>4. ProgressInv'
      BY <3>1, <2>1 DEF ProgressInv, DeployedAt
    <3> QED
      BY <3>1, <3>2, <3>3, <3>4, <2>1 DEF DeployInv
  <2> QED
    BY <2>2, <2>3, <2>4, <2>5, <2>6, <2>7, <2>8, <2>9 DEF DeployNext, RunStep
<1> QED
  BY <1>1, DeployInitially, PTL DEF DeploySpec

\* A contract is on the chain only with all that its bytecode and constructor
\* arguments refer to, at the very addresses they contain, for any contracts,
\* however the deployer's other transactions and the failures of the run are
\* interleaved with it (deployContracts).
THEOREM OnlyCompleteContractsAreDeployed ==
    DeploySpec => []DependenciesAreDeployed
<1>1. DeployInv => DependenciesAreDeployed
  BY DEF DeployInv, ChainInv
<1> QED
  BY <1>1, DeployInvariant, PTL

\* What deployContracts reports for a contract is the address it was planned
\* for, where the contract is; a run that is done has reported all of them.
THEOREM ReportsAreTrue == DeploySpec => []ReportedIsDeployed
<1>1. DeployInv => ReportedIsDeployed
  <2> SUFFICES ASSUME DeployInv PROVE ReportedIsDeployed
    OBVIOUS
  <2>1. /\ ProgressInv /\ ScheduleInv /\ registered \in Seq(Contract)
    BY DEF DeployInv, RegistryTypeOK
  <2>2. /\ index \in 1 .. Len(registered) + 1 /\ Len(registered) \in Nat
        /\ addresses = {<<registered[j], startingNonce + j - 1>> :
                        j \in 1 .. index - 1}
        /\ \A j \in 1 .. index - 1 :
             DeployedAt(startingNonce + j - 1, registered[j])
        /\ transactions = <<>> => index = 1
        /\ phase = "done" => index = Len(registered) + 1
    BY <2>1 DEF ProgressInv
  <2>3. ASSUME NEW ref \in addresses
        PROVE  /\ contracts[ref[1]].address = ref[2]
               /\ code[ref[2]] # NoCode
               /\ code[ref[2]].contract = ref[1]
    <3>1. PICK j \in 1 .. index - 1 : ref = <<registered[j], startingNonce + j - 1>>
      BY <2>2
    <3>2. ref[1] = registered[j] /\ ref[2] = startingNonce + j - 1
      BY <3>1
    <3>3. transactions # <<>> /\ j \in 1 .. Len(registered)
      BY <2>2
    <3>4. contracts[registered[j]].address = startingNonce + j - 1
      BY <3>3, <2>1 DEF ScheduleInv
    <3>5. DeployedAt(startingNonce + j - 1, registered[j])
      BY <2>2
    <3> QED
      BY <3>2, <3>4, <3>5 DEF DeployedAt
  <2>4. ASSUME phase = "done"
        PROVE  {ref[1] : ref \in addresses} = RegisteredSet
    <3>1. index - 1 = Len(registered)
      BY <2>2, <2>4
    <3>2. \A ref \in addresses : ref[1] \in RegisteredSet
      <4>1. ASSUME NEW j \in 1 .. index - 1
            PROVE  <<registered[j], startingNonce + j - 1>>[1] \in RegisteredSet
        BY <3>1, <2>1 DEF RegisteredSet
      <4> QED
        BY <4>1, <2>2
    <3>3. ASSUME NEW c \in RegisteredSet
          PROVE  \E ref \in addresses : ref[1] = c
      <4>1. PICK j \in 1 .. Len(registered) : c = registered[j]
        BY <2>1 DEF RegisteredSet
      <4>2. <<registered[j], startingNonce + j - 1>> \in addresses
        BY <4>1, <3>1, <2>2
      <4>3. <<registered[j], startingNonce + j - 1>>[1] = c
        BY <4>1
      <4> QED
        BY <4>2, <4>3
    <3> QED
      BY <3>2, <3>3
  <2> QED
    BY <2>3, <2>4 DEF ReportedIsDeployed
<1> QED
  BY <1>1, DeployInvariant, PTL

-----------------------------------------------------------------------------
\* The deployment of both chains

\* A run that has deployed its co-gateway is done, and one that is about to has
\* its gateway, for the token it has now.
ScriptInv ==
    /\ run \in Nat
    /\ \A g \in gateways : g.run \in Nat /\ g.run =< run
    /\ \A c \in coGateways : /\ c.run = c.gateway
                             /\ c.gateway \in Nat /\ c.gateway =< run
                             /\ c.gateway = run => step = "done"
    /\ step \in {"auxiliaryAnchor", "coGateway"} =>
         \E g \in gateways : g.run = run /\ g.token = tokens["token"]
    /\ Paired

\* The steps that deploy neither a gateway nor a co-gateway.
LEMMA ScriptInvKept ==
    ASSUME ScriptInv, run' = run, gateways' = gateways, coGateways' = coGateways,
           step # "done" \/ step' = "done",
           step' \in {"auxiliaryAnchor", "coGateway"} =>
             step \in {"auxiliaryAnchor", "coGateway"} /\ tokens' = tokens
    PROVE  ScriptInv'
BY DEF ScriptInv, Paired

\* Every co-gateway is the only one of its own gateway and has its value token,
\* however often the script is run and wherever a run before broke off.
THEOREM GatewaysArePaired == ScriptSpec => []Paired
<1>1. ScriptInit => ScriptInv
  BY DEF ScriptInit, ScriptInv, Paired
<1>2. ScriptInv /\ [ScriptNext]_scriptVars => ScriptInv'
  <2> SUFFICES ASSUME ScriptInv, [ScriptNext]_scriptVars PROVE ScriptInv'
    OBVIOUS
  <2>1. ASSUME NEW s \in Side, MineBlock(s) PROVE ScriptInv'
    BY <2>1, ScriptInvKept DEF MineBlock, deployed
  <2>2. CASE DeployedToken("token", "baseToken")
             \/ DeployedToken("baseToken", "originInfo")
    BY <2>2, ScriptInvKept DEF DeployedToken, Proceeds, deployed
  <2>3. CASE GetChainInfo("origin", "originInfo", "auxiliaryInfo")
             \/ GetChainInfo("auxiliary", "auxiliaryInfo", "originAnchor")
    BY <2>3, ScriptInvKept DEF GetChainInfo, Proceeds, deployed
  <2>4. CASE DeployAnchor("origin", "originAnchor", "gateway")
             \/ DeployAnchor("auxiliary", "auxiliaryAnchor", "coGateway")
    BY <2>4, ScriptInvKept DEF DeployAnchor, Proceeds
  <2>5. CASE DeployGateway
    <3> DEFINE g == [run |-> run, token |-> tokens["token"],
                     height |-> height'["origin"]]
    <3>1. /\ step = "gateway" /\ step' = "auxiliaryAnchor" /\ run' = run
          /\ gateways' = gateways \cup {g}
          /\ tokens' = tokens /\ coGateways' = coGateways
      BY <2>5 DEF DeployGateway, Proceeds
    <3>2. g.run = run /\ g.token = tokens["token"]
      OBVIOUS
    <3> HIDE DEF g
    <3>3. /\ run \in Nat
          /\ \A h \in gateways : h.run \in Nat /\ h.run =< run
          /\ \A c \in coGateways : /\ c.run = c.gateway
                                   /\ c.gateway \in Nat /\ c.gateway =< run
                                   /\ c.gateway # run
          /\ \A c \in coGateways :
               \E h \in gateways : h.run = c.gateway /\ h.token = c.token
          /\ \A c, d \in coGateways : c.gateway = d.gateway => c = d
      BY <3>1 DEF ScriptInv, Paired
    <3>4. Paired'
      BY <3>1, <3>3 DEF Paired
    <3>5. \A h \in gateways' : h.run \in Nat /\ h.run =< run'
      BY <3>1, <3>2, <3>3
    <3>6. g \in gateways' /\ g.run = run' /\ g.token = tokens'["token"]
      BY <3>1, <3>2
    <3> QED
      BY <3>1, <3>3, <3>4, <3>5, <3>6 DEF ScriptInv
  <2>6. CASE DeployCoGateway
    <3> DEFINE c == [run |-> run, token |-> tokens["token"], gateway |-> run]
    <3>1. /\ step = "coGateway" /\ step' = "done" /\ run' = run
          /\ coGateways' = coGateways \cup {c}
          /\ tokens' = tokens /\ gateways' = gateways
      BY <2>6 DEF DeployCoGateway, Proceeds, GatewayRun
    <3>2. c.run = run /\ c.token = tokens["token"] /\ c.gateway = run
      OBVIOUS
    <3> HIDE DEF c
    <3>3. /\ run \in Nat
          /\ \A h \in gateways : h.run \in Nat /\ h.run =< run
          /\ \A d \in coGateways : /\ d.run = d.gateway
                                   /\ d.gateway \in Nat /\ d.gateway =< run
                                   /\ d.gateway # run
          /\ \A d \in coGateways :
               \E h \in gateways : h.run = d.gateway /\ h.token = d.token
          /\ \A d, e \in coGateways : d.gateway = e.gateway => d = e
          /\ \E h \in gateways : h.run = run /\ h.token = tokens["token"]
      BY <3>1 DEF ScriptInv, Paired
    <3>4. Paired'
      <4>1. \A d \in coGateways' :
               \E h \in gateways' : h.run = d.gateway /\ h.token = d.token
        BY <3>1, <3>2, <3>3
      <4>2. \A d, e \in coGateways' : d.gateway = e.gateway => d = e
        BY <3>1, <3>2, <3>3
      <4> QED
        BY <4>1, <4>2 DEF Paired
    <3>5. \A d \in coGateways' : /\ d.run = d.gateway
                                 /\ d.gateway \in Nat /\ d.gateway =< run'
                                 /\ d.gateway = run' => step' = "done"
      BY <3>1, <3>2, <3>3
    <3> QED
      BY <3>1, <3>3, <3>4, <3>5 DEF ScriptInv
  <2>7. CASE ScriptFails
    BY <2>7, ScriptInvKept DEF ScriptFails, deployed
  <2>8. CASE RunScriptAgain
    <3>1. /\ run' = run + 1 /\ step' = "token" /\ gateways' = gateways
          /\ coGateways' = coGateways
      BY <2>8 DEF RunScriptAgain, deployed
    <3>2. run \in Nat /\ Paired' /\ run' \in Nat
      BY <3>1 DEF ScriptInv, Paired
    <3>3. \A g \in gateways' : g.run \in Nat /\ g.run =< run'
      BY <3>1, <3>2 DEF ScriptInv
    <3>4. \A c \in coGateways' : /\ c.run = c.gateway
                                 /\ c.gateway \in Nat /\ c.gateway =< run'
                                 /\ c.gateway # run'
      BY <3>1, <3>2 DEF ScriptInv
    <3> QED
      BY <3>1, <3>2, <3>3, <3>4 DEF ScriptInv
  <2>9. CASE UNCHANGED scriptVars
    BY <2>9, ScriptInvKept DEF scriptVars, deployed
  <2> QED
    BY <2>1, <2>2, <2>3, <2>4, <2>5, <2>6, <2>7, <2>8, <2>9 DEF ScriptNext
<1>3. ScriptInv => Paired
  BY DEF ScriptInv
<1> QED
  BY <1>1, <1>2, <1>3, PTL DEF ScriptSpec
=============================================================================
