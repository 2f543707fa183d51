--------------------------- MODULE MergeJobsProofs ---------------------------
(***************************************************************************)
(* For every set of jobs, viewers and certificates, every size, limit and  *)
(* order: certificates are sorted into sequences, partitions fit, periods  *)
(* are found free; and whatever requests, the merge worker, AWS Batch and  *)
(* viewers do in between, a job that is shown as succeeded is complete, it *)
(* has an output for each of its parts, and a certificate that no user     *)
(* moved is merged in one period.                                          *)
(*                                                                         *)
(* MergeInv is inductive: MergeInitially, and a lemma for each kind of     *)
(* step (named ...Keeps), which MergeStep collects.                        *)
(***************************************************************************)
EXTENDS MergeJobs, DataInduction, SequenceTheorems

(* Sorting a set of certificates makes a sequence of them.                 *)
LEMMA InOrderIsOf == ASSUME NEW S \in SUBSET Certificate PROVE InOrder(S) \in Seq(S)
<1> DEFINE N == Len(ByPayor)
           T == Seq(S)
           add(n, s) == IF ByPayor[n] \in S THEN Append(s, ByPayor[n]) ELSE s
           next == [n \in 1 .. N |-> [s \in T |-> add(n, s)]]
           Sound(f) == f = [n \in 0 .. N |->
                              IF n = 0 THEN <<>>
                              ELSE IF ByPayor[n] \in S THEN Append(f[n - 1], ByPayor[n])
                                                       ELSE f[n - 1]]
<1>1. N \in Nat
  BY MergeAssumption
<1>2. <<>> \in T /\ \A n \in 1 .. N : \A s \in T : add(n, s) \in T
  OBVIOUS
<1> HIDE DEF T, N, add
<1>3. PICK f \in [0 .. N -> T] :
        f[0] = <<>> /\ \A n \in 1 .. N : f[n] = next[n][f[n - 1]]
  <2>1. next \in [1 .. N -> [T -> T]]
    BY <1>2
  <2> HIDE DEF next
  <2>2. PICK first \in T : first = <<>>
    BY <1>2
  <2>3. \E f : IsSteps(f, N, T, first, next)
    BY <1>1, <2>1, StepsExist
  <2> QED
    BY <2>2, <2>3 DEF IsSteps
<1>4. Sound(f)
  <2>1. ASSUME NEW n \in 1 .. N
        PROVE  f[n] = add(n, f[n - 1])
    <3>1. n - 1 \in 0 .. N /\ f[n - 1] \in T
      BY <1>1
    <3> QED
      BY <1>3, <3>1
  <2>2. \A n \in 0 .. N : n = 0 \/ n \in 1 .. N
    BY <1>1
  <2> QED
    BY <1>3, <2>1, <2>2 DEF add
<1>5. PICK h : h = CHOOSE g : Sound(g)
  OBVIOUS
<1>6. Sound(h) /\ InOrder(S) = h[N]
  <2>1. Sound(h)
    <3> HIDE DEF Sound
    <3> QED
      BY <1>4, <1>5
  <2>2. InOrder(S) = h[N]
    BY <1>5 DEF InOrder, N
  <2> QED
    BY <2>1, <2>2
<1> DEFINE Good == {n \in 0 .. N : h[n] \in T}
<1>7. 0 \in Good
  BY <1>1, <1>2, <1>6
<1>8. ASSUME NEW k \in 0 .. (N - 1), k \in Good
      PROVE  k + 1 \in Good
  <2>1. k + 1 \in 1 .. N /\ k + 1 \in 0 .. N /\ k + 1 # 0 /\ (k + 1) - 1 = k
    BY <1>1
  <2>2. h[k + 1] = add(k + 1, h[k])
    BY <1>6, <2>1 DEF add
  <2> QED
    BY <1>2, <1>8, <2>1, <2>2
<1>9. 0 .. N \subseteq Good
  <2> HIDE DEF Good
  <2> QED
    BY <1>1, <1>7, <1>8, IntervalInduction
<1> QED
  BY <1>1, <1>6, <1>9 DEF T

-----------------------------------------------------------------------------
(* What a partition knows after some of the inputs.                        *)
Accumulator == [part : Nat \ {0}, used : Nat, at : Seq(Nat)]
Start == [part |-> 1, used |-> 0, at |-> <<>>]

(* Placing an input leaves part, used and at what they are.                *)
LEMMA PlaceType ==
  ASSUME NEW acc \in Accumulator, NEW c \in Certificate
  PROVE  Place(acc, c) \in Accumulator
<1>1. /\ acc.part \in Nat \ {0} /\ acc.used \in Nat /\ acc.at \in Seq(Nat) /\ Size[c] \in Nat
  BY MergeAssumption DEF Accumulator
<1>2. /\ Append(acc.at, acc.part) \in Seq(Nat) /\ Append(acc.at, acc.part + 1) \in Seq(Nat)
      /\ acc.part + 1 \in Nat \ {0} /\ acc.used + Size[c] \in Nat
  BY <1>1
<1>3. /\ [part |-> acc.part + 1, used |-> Size[c], at |-> Append(acc.at, acc.part + 1)]
           \in Accumulator
      /\ [part |-> acc.part, used |-> acc.used + Size[c], at |-> Append(acc.at, acc.part)]
           \in Accumulator
  BY <1>1, <1>2 DEF Accumulator
<1> QED
  BY <1>3 DEF Place

(* A partition places one input after another.                             *)
LEMMA PartitionSteps ==
  ASSUME NEW inputs \in Seq(Certificate)
  PROVE  \E h : /\ h[0] = Start /\ Partition(inputs) = h[Len(inputs)]
                /\ \A n \in 0 .. Len(inputs) : h[n] \in Accumulator
                /\ \A n \in 1 .. Len(inputs) : h[n] = Place(h[n - 1], inputs[n])
<1> DEFINE N == Len(inputs)
           T == Accumulator
           Sound(f) == f = [n \in 0 .. N |->
                              IF n = 0 THEN [part |-> 1, used |-> 0, at |-> <<>>]
                                       ELSE Place(f[n - 1], inputs[n])]
<1>1. N \in Nat
  OBVIOUS
<1>2. Start \in T /\ \A n \in 1 .. N : \A acc \in T : Place(acc, inputs[n]) \in T
  <2>1. Start \in T
    BY DEF Start, Accumulator
  <2>2. \A n \in 1 .. N : inputs[n] \in Certificate
    OBVIOUS
  <2> QED
    BY <2>1, <2>2, PlaceType
<1> HIDE DEF T, N
<1>3. PICK f \in [0 .. N -> T] :
        f[0] = Start /\ \A n \in 1 .. N : f[n] = Place(f[n - 1], inputs[n])
  <2>1. PICK next : next = [n \in 1 .. N |-> [acc \in T |-> Place(acc, inputs[n])]]
    OBVIOUS
  <2>2. PICK S, first : S = T /\ first = Start
    OBVIOUS
  <2>3. N \in Nat /\ first \in S /\ next \in [1 .. N -> [S -> S]]
    BY <1>1, <1>2, <2>1, <2>2
  <2>4. PICK f : IsSteps(f, N, S, first, next)
    BY <2>3, StepsExist
  <2>5. \A n \in 1 .. N : n - 1 \in 0 .. N
    BY <1>1
  <2>6. \A n \in 1 .. N : f[n] = Place(f[n - 1], inputs[n])
    BY <2>1, <2>2, <2>4, <2>5 DEF IsSteps
  <2> QED
    BY <2>2, <2>4, <2>6 DEF IsSteps
<1>4. Sound(f)
  <2>1. ASSUME NEW n \in 1 .. N
        PROVE  f[n] = Place(f[n - 1], inputs[n])
    <3>1. n - 1 \in 0 .. N /\ f[n - 1] \in T
      BY <1>1
    <3> QED
      BY <1>3, <3>1
  <2>2. \A n \in 0 .. N : n = 0 \/ n \in 1 .. N
    BY <1>1
  <2> QED
    BY <1>3, <2>1, <2>2 DEF Start
<1>5. PICK h : h = CHOOSE g : Sound(g)
  OBVIOUS
<1>6. Sound(h) /\ Partition(inputs) = h[N]
  <2>1. Sound(h)
    <3> HIDE DEF Sound
    <3> QED
      BY <1>4, <1>5
  <2>2. Partition(inputs) = h[N]
    BY <1>5 DEF Partition, N
  <2> QED
    BY <2>1, <2>2
<1>7. h[0] = Start /\ \A n \in 1 .. N : h[n] = Place(h[n - 1], inputs[n])
  <2>1. \A n \in 1 .. N : n \in 0 .. N /\ n # 0
    BY <1>1
  <2>2. 0 \in 0 .. N
    BY <1>1
  <2> QED
    BY <1>6, <2>1, <2>2 DEF Start
<1> DEFINE Good == {n \in 0 .. N : h[n] \in T}
<1>8. 0 \in Good
  BY <1>1, <1>2, <1>7
<1>9. ASSUME NEW k \in 0 .. (N - 1), k \in Good
      PROVE  k + 1 \in Good
  <2>1. k + 1 \in 1 .. N /\ k + 1 \in 0 .. N /\ (k + 1) - 1 = k
    BY <1>1
  <2> QED
    BY <1>2, <1>7, <1>9, <2>1
<1>10. 0 .. N \subseteq Good
  <2> HIDE DEF Good
  <2> QED
    BY <1>1, <1>8, <1>9, IntervalInduction
<1> QED
  BY <1>6, <1>7, <1>10 DEF T, N

(* The bytes of the first n inputs that go to part p.                      *)
Load(inputs, at, n, p) ==
  SumFunctionOnSet([i \in DOMAIN inputs |-> Size[inputs[i]]], {i \in 1 .. n : at[i] = p})

(* An input that goes to q adds its bytes there, and none to other parts.  *)
LoadGrows(inputs, at, n, q, p) ==
  /\ Load(inputs, at, n, p) \in Nat
  /\ p # q => Load(inputs, Append(at, q), n + 1, p) = Load(inputs, at, n, p)
  /\ p = q => Load(inputs, Append(at, q), n + 1, p)
                = Load(inputs, at, n, p) + Size[inputs[n + 1]]
  /\ (\A i \in 1 .. n : at[i] # p) => Load(inputs, at, n, p) = 0

(* One input more makes the load of every part grow so.                    *)
LEMMA LoadStep ==
  ASSUME NEW inputs \in Seq(Certificate), NEW n \in 0 .. (Len(inputs) - 1),
         NEW at \in Seq(Nat), Len(at) = n, NEW q \in Nat, NEW p
  PROVE  LoadGrows(inputs, at, n, q, p)
<1> DEFINE f == [i \in DOMAIN inputs |-> Size[inputs[i]]]
           S == {i \in 1 .. n : at[i] = p}
           T == {i \in 1 .. (n + 1) : Append(at, q)[i] = p}
<1>1. /\ n \in Nat /\ n + 1 \in 1 .. Len(inputs) /\ DOMAIN inputs = 1 .. Len(inputs)
      /\ \A i \in 1 .. n : i \in DOMAIN inputs /\ Append(at, q)[i] = at[i]
      /\ Append(at, q)[n + 1] = q
  OBVIOUS
<1>2. \A i \in DOMAIN inputs : f[i] = Size[inputs[i]] /\ f[i] \in Nat
  BY MergeAssumption
<1>3. IsFiniteSet(S) /\ S \subseteq DOMAIN inputs /\ n + 1 \notin S
  <2>1. IsFiniteSet(1 .. n) /\ S \subseteq 1 .. n
    BY <1>1, FS_Interval
  <2>2. IsFiniteSet(S)
    <3> HIDE DEF S
    <3> QED
      BY <2>1, FS_Subset
  <2> QED
    BY <1>1, <2>2
<1>4. T = IF p = q THEN S \cup {n + 1} ELSE S
  BY <1>1
<1>5. f[n + 1] = Size[inputs[n + 1]] /\ f[n + 1] \in Nat
  BY <1>1, <1>2
<1>6. \A i \in S : f[i] \in Nat
  BY <1>2, <1>3
<1>7. Load(inputs, at, n, p) = SumFunctionOnSet(f, S)
      /\ Load(inputs, Append(at, q), n + 1, p) = SumFunctionOnSet(f, T)
  BY DEF Load
<1>8. (\A i \in 1 .. n : at[i] # p) => S = {}
  OBVIOUS
<1> HIDE DEF f, S, T
<1>9. SumFunctionOnSet(f, S) \in Nat
  BY <1>3, <1>6, SumNat
<1>10. SumFunctionOnSet(f, S \cup {n + 1}) = SumFunctionOnSet(f, S) + f[n + 1]
  BY <1>3, <1>5, <1>6, SumAdd
<1>11. SumFunctionOnSet(f, {}) = 0
  BY SumEmpty
<1> QED
  BY <1>4, <1>5, <1>7, <1>8, <1>9, <1>10, <1>11 DEF LoadGrows

(* What holds after the first n inputs have been placed.                   *)
PrefixFits(inputs, acc, n) ==
  /\ acc \in Accumulator /\ Len(acc.at) = n
  /\ acc.used = Load(inputs, acc.at, n, acc.part)
  /\ IF n = 0 THEN acc.part = 1 /\ acc.used = 0
              ELSE acc.used > 0 /\ acc.at[1] = 1 /\ acc.at[n] = acc.part
  /\ \A i \in 1 .. n : acc.at[i] \in 1 .. acc.part
  /\ n > 0 => \A p \in 1 .. acc.part : \E i \in 1 .. n : acc.at[i] = p
  /\ \A p \in 1 .. acc.part : Load(inputs, acc.at, n, p) <= PartLimit
  /\ \A i \in 2 .. n :
       \/ acc.at[i] = acc.at[i - 1]
       \/ /\ acc.at[i] = acc.at[i - 1] + 1
          /\ Load(inputs, acc.at, n, acc.at[i - 1]) + Size[inputs[i]] > PartLimit

(* Placing one input more keeps it so.                                     *)
LEMMA PlaceFits ==
  ASSUME NEW inputs \in Seq(Certificate), NEW n \in 0 .. (Len(inputs) - 1), NEW acc,
         PrefixFits(inputs, acc, n)
  PROVE  PrefixFits(inputs, Place(acc, inputs[n + 1]), n + 1)
<1> DEFINE s == Size[inputs[n + 1]]
           part == acc.part
           at == acc.at
           new == Place(acc, inputs[n + 1])
           more == acc.used > 0 /\ acc.used + s > PartLimit
           q == IF more THEN part + 1 ELSE part
           at2 == Append(at, q)
<1>1. /\ n \in Nat /\ n + 1 \in 1 .. Len(inputs) /\ inputs[n + 1] \in Certificate
      /\ s \in 1 .. PartLimit /\ PartLimit \in Nat /\ s = Size[inputs[n + 1]]
  BY MergeAssumption
<1>2. /\ part \in Nat \ {0} /\ acc.used \in Nat /\ at \in Seq(Nat) /\ Len(at) = n
      /\ acc.used = Load(inputs, at, n, part)
  BY DEF PrefixFits, Accumulator
<1>3. /\ new.part = q /\ new.at = at2
      /\ new.used = IF more THEN s ELSE acc.used + s
      /\ more <=> acc.used > 0 /\ acc.used + s > PartLimit
  BY DEF Place
<1>4. new \in Accumulator
  BY <1>1, PlaceType DEF PrefixFits
<1>5. q \in Nat /\ q \in {part, part + 1} /\ (more <=> q = part + 1) /\ at2 = Append(at, q)
  BY <1>2
<1>6. /\ \A i \in 1 .. n : at[i] \in 1 .. part
      /\ n = 0 => part = 1 /\ acc.used = 0
      /\ n # 0 => acc.used > 0 /\ at[1] = 1 /\ at[n] = part
      /\ n > 0 => \A p \in 1 .. part : \E i \in 1 .. n : at[i] = p
      /\ \A p \in 1 .. part : Load(inputs, at, n, p) <= PartLimit
      /\ \A i \in 2 .. n :
           \/ at[i] = at[i - 1]
           \/ /\ at[i] = at[i - 1] + 1
              /\ Load(inputs, at, n, at[i - 1]) + Size[inputs[i]] > PartLimit
  BY DEF PrefixFits
<1>7. new = Place(acc, inputs[n + 1])
  OBVIOUS
<1> HIDE DEF s, part, at, new, more, q, at2
<1>8. /\ \A p : Load(inputs, at, n, p) \in Nat
      /\ \A p : p # q => Load(inputs, at2, n + 1, p) = Load(inputs, at, n, p)
      /\ Load(inputs, at2, n + 1, q) = Load(inputs, at, n, q) + s
      /\ \A p : (\A i \in 1 .. n : at[i] # p) => Load(inputs, at, n, p) = 0
  <2>1. /\ q \in Nat /\ at \in Seq(Nat) /\ Len(at) = n
        /\ at2 = Append(at, q) /\ s = Size[inputs[n + 1]]
    BY <1>1, <1>2, <1>5
  <2>2. ASSUME NEW p
        PROVE  LoadGrows(inputs, at, n, q, p)
    BY <2>1, LoadStep
  <2> QED
    BY <2>1, <2>2 DEF LoadGrows
<1>9. Load(inputs, at2, n + 1, q) = new.used
  <2>1. CASE more
    <3>1. part + 1 \notin 1 .. part
      BY <1>2
    <3>2. \A i \in 1 .. n : at[i] # q
      BY <1>5, <1>6, <2>1, <3>1
    <3> QED
      BY <1>1, <1>3, <1>8, <2>1, <3>2
  <2>2. CASE ~more
    BY <1>2, <1>3, <1>5, <1>8, <2>2
  <2> QED
    BY <2>1, <2>2
<1>10. Len(at2) = n + 1 /\ at2[n + 1] = q /\ \A i \in 1 .. n : at2[i] = at[i]
  BY <1>1, <1>2, <1>5
<1>11. n = 0 => q = 1
  BY <1>3, <1>5, <1>6
<1>12. \A i \in 1 .. (n + 1) : i = n + 1 \/ i \in 1 .. n
  BY <1>1
<1>13. new.used > 0 /\ at2[1] = 1
  <2>1. new.used > 0
    BY <1>1, <1>2, <1>3
  <2>2. n # 0 => 1 \in 1 .. n
    BY <1>1
  <2> QED
    BY <1>6, <1>10, <1>11, <2>1, <2>2
<1>14. \A p \in 1 .. part : p \in 1 .. q
  BY <1>2, <1>5
<1>15. \A p \in 1 .. q : p = q \/ p \in 1 .. part
  BY <1>2, <1>5
<1>16. \A i \in 1 .. (n + 1) : at2[i] \in 1 .. q
  <2>1. q \in 1 .. q
    BY <1>2, <1>5
  <2> QED
    BY <1>6, <1>10, <1>12, <1>14, <2>1
<1>17. ASSUME NEW p \in 1 .. q
       PROVE  \E i \in 1 .. (n + 1) : at2[i] = p
  <2>1. n + 1 \in 1 .. (n + 1) /\ \A i \in 1 .. n : i \in 1 .. (n + 1)
    BY <1>1
  <2>2. CASE p = q
    BY <1>10, <2>1, <2>2
  <2>3. CASE p # q
    <3>1. p \in 1 .. part /\ n # 0 /\ n > 0
      BY <1>1, <1>11, <1>15, <2>3
    <3>2. PICK i \in 1 .. n : at[i] = p
      BY <1>6, <3>1
    <3> QED
      BY <1>10, <2>1, <3>2
  <2> QED
    BY <2>2, <2>3
<1>18. ASSUME NEW p \in 1 .. q
       PROVE  Load(inputs, at2, n + 1, p) <= PartLimit
  <2>1. new.used <= PartLimit
    BY <1>1, <1>2, <1>3
  <2> QED
    BY <1>6, <1>8, <1>9, <1>15, <2>1
<1>19. ASSUME NEW i \in 2 .. (n + 1)
       PROVE  \/ at2[i] = at2[i - 1]
              \/ /\ at2[i] = at2[i - 1] + 1
                 /\ Load(inputs, at2, n + 1, at2[i - 1]) + Size[inputs[i]] > PartLimit
  <2>1. CASE i = n + 1
    <3>1. n # 0 /\ i - 1 = n /\ n \in 1 .. n
      BY <1>1, <2>1
    <3>2. at2[i - 1] = part /\ at2[i] = q
      BY <1>6, <1>10, <2>1, <3>1
    <3>3. CASE ~more
      BY <1>5, <3>2, <3>3
    <3>4. CASE more
      <4>1. Load(inputs, at2, n + 1, part) = acc.used /\ acc.used + s > PartLimit
        BY <1>2, <1>3, <1>5, <1>8, <3>4
      <4> QED
        BY <1>1, <1>5, <2>1, <3>2, <3>4, <4>1
    <3> QED
      BY <3>3, <3>4
  <2>2. CASE i # n + 1
    <3>1. i \in 2 .. n /\ i \in 1 .. n /\ i - 1 \in 1 .. n
      BY <1>1, <2>2
    <3>2. at2[i] = at[i] /\ at2[i - 1] = at[i - 1] /\ at[i] \in 1 .. part /\ at[i - 1] \in 1 .. part
      BY <1>6, <1>10, <3>1
    <3>3. CASE at[i] = at[i - 1]
      BY <3>2, <3>3
    <3>4. CASE at[i] # at[i - 1]
      <4>1. /\ at[i] = at[i - 1] + 1
            /\ Load(inputs, at, n, at[i - 1]) + Size[inputs[i]] > PartLimit
        BY <1>6, <3>1, <3>4
      <4>2. at[i - 1] # q
        <5>1. PICK x, y : x = at[i - 1] /\ y = at[i]
          OBVIOUS
        <5>2. x \in 1 .. part /\ y \in 1 .. part /\ y = x + 1
          BY <3>2, <4>1, <5>1
        <5>3. x # q
          BY <1>2, <1>5, <5>2
        <5> QED
          BY <5>1, <5>3
      <4>3. Load(inputs, at2, n + 1, at[i - 1]) = Load(inputs, at, n, at[i - 1])
        BY <1>8, <4>2
      <4> QED
        BY <3>2, <4>1, <4>3
    <3> QED
      BY <3>3, <3>4
  <2> QED
    BY <2>1, <2>2
<1>20. n + 1 # 0 /\ n + 1 > 0 /\ new.used = Load(inputs, at2, n + 1, q)
  BY <1>1, <1>9
<1>21. PrefixFits(inputs, new, n + 1)
  BY <1>3, <1>4, <1>10, <1>13, <1>16, <1>17, <1>18, <1>19, <1>20 DEF PrefixFits
<1> QED
  BY <1>7, <1>21

(* Whatever is partitioned fits, in as many parts as it says.              *)
LEMMA PartitionIsFit ==
  ASSUME NEW inputs \in Seq(Certificate)
  PROVE  /\ Fits(inputs, Partition(inputs).at)
         /\ Partition(inputs).part \in Nat \ {0}
         /\ Partition(inputs).at \in Seq(1 .. Partition(inputs).part)
         /\ inputs # <<>> => ToSet(Partition(inputs).at) = 1 .. Partition(inputs).part
<1> DEFINE N == Len(inputs)
           acc == Partition(inputs)
<1>1. PICK h : /\ h[0] = Start /\ acc = h[N]
               /\ \A n \in 0 .. N : h[n] \in Accumulator
               /\ \A n \in 1 .. N : h[n] = Place(h[n - 1], inputs[n])
  BY PartitionSteps
<1> HIDE DEF acc
<1> DEFINE Good == {n \in 0 .. N : PrefixFits(inputs, h[n], n)}
<1>2. 0 \in Good
  <2>1. Start \in Accumulator /\ Start.part = 1 /\ Start.used = 0 /\ Start.at = <<>>
    BY <1>1 DEF Start
  <2>2. \A p : Load(inputs, <<>>, 0, p) = 0
    <3> TAKE p
    <3>1. {i \in 1 .. 0 : <<>>[i] = p} = {}
      OBVIOUS
    <3> QED
      BY <3>1, SumEmpty DEF Load
  <2> QED
    BY <1>1, <2>1, <2>2, MergeAssumption DEF PrefixFits
<1>3. ASSUME NEW k \in 0 .. (N - 1), k \in Good
      PROVE  k + 1 \in Good
  <2>1. k + 1 \in 1 .. N /\ (k + 1) - 1 = k /\ k + 1 \in 0 .. N
    OBVIOUS
  <2>2. h[k + 1] = Place(h[k], inputs[k + 1])
    BY <1>1, <2>1
  <2> QED
    BY <1>3, <2>1, <2>2, PlaceFits
<1>4. 0 .. N \subseteq Good
  <2>1. N \in Nat
    OBVIOUS
  <2> HIDE DEF Good, N
  <2> QED
    BY <1>2, <1>3, <2>1, IntervalInduction
<1>5. PrefixFits(inputs, acc, N)
  BY <1>1, <1>4
<1>6. /\ acc.part \in Nat \ {0} /\ acc.at \in Seq(Nat) /\ Len(acc.at) = N
      /\ DOMAIN inputs = 1 .. N /\ DOMAIN acc.at = 1 .. N
  BY <1>5 DEF PrefixFits, Accumulator
<1>7. acc.at \in Seq(1 .. acc.part)
  <2>1. \A i \in 1 .. N : acc.at[i] \in 1 .. acc.part
    BY <1>5 DEF PrefixFits
  <2>2. PICK T : T = 1 .. acc.part
    OBVIOUS
  <2>3. acc.at \in [1 .. N -> T] /\ N \in Nat
    BY <1>6, <2>1, <2>2, LenProperties
  <2>4. acc.at \in Seq(T)
    BY <2>3, SeqDef
  <2> QED
    BY <2>2, <2>4
<1>8. \A p : Load(inputs, acc.at, N, p) = SizeOf(inputs, acc.at, p)
  BY <1>6 DEF Load, SizeOf
<1>9. inputs # <<>> => N > 0
  OBVIOUS
<1>10. inputs # <<>> => ToSet(acc.at) = 1 .. acc.part
  <2>1. /\ \A i \in 1 .. N : acc.at[i] \in 1 .. acc.part
        /\ N > 0 => \A p \in 1 .. acc.part : \E i \in 1 .. N : acc.at[i] = p
    BY <1>5 DEF PrefixFits
  <2>2. ToSet(acc.at) = {acc.at[i] : i \in 1 .. N}
    BY <1>6 DEF ToSet
  <2> HIDE DEF acc
  <2> QED
    BY <1>9, <2>1, <2>2
<1>11. Fits(inputs, acc.at)
  <2>1. inputs # <<>> => acc.at[1] = 1
    BY <1>5, <1>9 DEF PrefixFits
  <2>2. \A p \in ToSet(acc.at) : SizeOf(inputs, acc.at, p) <= PartLimit
    BY <1>5, <1>6, <1>8 DEF PrefixFits, ToSet
  <2>3. \A i \in 2 .. N :
       \/ acc.at[i] = acc.at[i - 1]
       \/ /\ acc.at[i] = acc.at[i - 1] + 1
          /\ SizeOf(inputs, acc.at, acc.at[i - 1]) + Size[inputs[i]] > PartLimit
    BY <1>5, <1>8 DEF PrefixFits
  <2> QED
    BY <1>6, <2>1, <2>2, <2>3 DEF Fits
<1> QED
  BY <1>6, <1>7, <1>10, <1>11 DEF acc

-----------------------------------------------------------------------------
(* A finite set of numbers has a greatest, and it is its maximum.          *)
LEMMA MaxIsGreatest ==
  ASSUME NEW S, IsFiniteSet(S), S \subseteq Nat, S # {}
  PROVE  Max(S) \in S /\ \A n \in S : n <= Max(S)
<1> DEFINE Greatest(T, m) == m \in T /\ \A n \in T : m >= n
           Good == {T \in SUBSET S : T = {} \/ \E m : Greatest(T, m)}
<1>1. {} \in Good
  OBVIOUS
<1>2. ASSUME NEW T \in SUBSET S, NEW x \in S \ T, T \in Good
      PROVE  T \cup {x} \in Good
  <2>1. CASE T = {}
    <3>1. Greatest(T \cup {x}, x)
      BY <2>1
    <3> QED
      BY <3>1
  <2>2. ASSUME NEW m, Greatest(T, m)
        PROVE  T \cup {x} \in Good
    <3>1. m \in Nat /\ x \in Nat
      BY <2>2
    <3>2. CASE m >= x
      <4>1. Greatest(T \cup {x}, m)
        BY <2>2, <3>2
      <4> QED
        BY <4>1
    <3>3. CASE ~(m >= x)
      <4>1. Greatest(T \cup {x}, x)
        BY <2>2, <3>1, <3>3
      <4> QED
        BY <4>1
    <3> QED
      BY <3>2, <3>3
  <2> QED
    BY <1>2, <2>1, <2>2
<1>3. S \in Good
  <2>1. SUBSET S \subseteq Good
    <3> HIDE DEF Good
    <3> QED
      BY <1>1, <1>2, SubsetInduction
  <2> QED
    BY <2>1
<1>4. PICK m : m \in S /\ \A n \in S : m >= n
  BY <1>3
<1>5. Max(S) \in S /\ \A n \in S : Max(S) >= n
  BY <1>4 DEF Max
<1> QED
  BY <1>5

(* Periods are long enough: whatever is unavailable, one of them is free   *)
(* for each certificate.                                                   *)
LEMMA PeriodsLast ==
  /\ LastPeriod \in Nat /\ Cardinality(Job) \in Nat
  /\ \A c \in Certificate : Source[c] \in Nat \ {0}
                            /\ Source[c] + Cardinality(Job) <= LastPeriod
<1> DEFINE S == {Source[c] : c \in Certificate}
<1>1. S \subseteq Nat /\ S # {} /\ \A c \in Certificate : Source[c] \in S
  BY MergeAssumption
<1>2. IsFiniteSet(S)
  <2> DEFINE f == [c \in Certificate |-> Source[c]]
  <2>1. f \in Surjection(Certificate, S)
    BY DEF Surjection
  <2> HIDE DEF f, S
  <2> QED
    BY <2>1, FS_Surjection, MergeAssumption
<1>3. Cardinality(Job) \in Nat
  BY FS_CardinalityType, MergeAssumption
<1>4. Max(S) \in S /\ \A n \in S : n <= Max(S)
  <2> HIDE DEF S
  <2> QED
    BY <1>1, <1>2, MaxIsGreatest
<1>5. LastPeriod = Max(S) + Cardinality(Job)
  BY DEF LastPeriod
<1>6. \A c \in Certificate : Source[c] \in Nat \ {0}
  BY MergeAssumption
<1>7. PICK m, n : m = Max(S) /\ n = Cardinality(Job)
  OBVIOUS
<1> HIDE DEF S
<1>8. m \in Nat /\ n \in Nat /\ LastPeriod = m + n
  BY <1>1, <1>3, <1>4, <1>5, <1>7
<1>9. ASSUME NEW c \in Certificate
      PROVE  Source[c] \in Nat \ {0} /\ Source[c] + n <= LastPeriod
  <2>1. Source[c] <= m /\ Source[c] \in Nat
    BY <1>1, <1>4, <1>6, <1>7
  <2> QED
    BY <1>6, <1>8, <2>1
<1> QED
  BY <1>7, <1>8, <1>9

(* The period that is free is one of them.                                 *)
LEMMA FirstFreeIs ==
  ASSUME NEW c \in Certificate
  PROVE  FirstFree(c) \in Period /\ FirstFree(c) \notin Unavailable
<1> DEFINE J == {k \in Job : job[k].status \in Blocking}
           f == [k \in J |-> job[k].period]
           n == Cardinality(Job)
           first == Source[c]
           I == first .. (first + n)
<1>1. n \in Nat /\ first \in Nat \ {0} /\ LastPeriod \in Nat /\ first + n <= LastPeriod
  BY PeriodsLast
<1>2. I \subseteq Period
  BY <1>1 DEF Period
<1>3. IsFiniteSet(Unavailable) /\ Cardinality(Unavailable) <= n
  <2>1. f \in Surjection(J, Unavailable)
    BY DEF Surjection, Unavailable
  <2>2. J \subseteq Job
    OBVIOUS
  <2> HIDE DEF f, J
  <2>3. IsFiniteSet(J) /\ Cardinality(J) <= n
    BY <2>2, FS_Subset, MergeAssumption
  <2>4. IsFiniteSet(Unavailable) /\ Cardinality(Unavailable) <= Cardinality(J)
    BY <2>1, <2>3, FS_Surjection
  <2>5. Cardinality(J) \in Nat /\ Cardinality(Unavailable) \in Nat
    BY <2>3, <2>4, FS_CardinalityType
  <2> HIDE DEF n
  <2> QED
    BY <1>1, <2>3, <2>4, <2>5
<1>4. I \ Unavailable # {}
  <2> SUFFICES ASSUME I \subseteq Unavailable
               PROVE  FALSE
    OBVIOUS
  <2>1. Cardinality(I) = n + 1
    <3>1. first \in Int /\ first + n \in Int
      BY <1>1
    <3>2. Cardinality(I) = IF first > first + n THEN 0 ELSE (first + n) - first + 1
      <4> HIDE DEF first, n
      <4> QED
        BY <3>1, FS_Interval
    <3> HIDE DEF first, n, I
    <3> QED
      BY <1>1, <3>2
  <2>2. Cardinality(I) <= Cardinality(Unavailable) /\ Cardinality(Unavailable) \in Nat
    <3> HIDE DEF I
    <3> QED
      BY <1>3, FS_Subset, FS_CardinalityType
  <2> HIDE DEF I, n
  <2> QED
    BY <1>1, <1>3, <2>1, <2>2
<1> DEFINE Free == {p \in Period : p >= first /\ p \notin Unavailable}
<1>5. PICK p \in Free : \A q \in Free : p <= q
  <2>1. PICK m : m \in Free
    BY <1>1, <1>2, <1>4
  <2>2. Free \subseteq Nat
    BY DEF Period
  <2> HIDE DEF Free
  <2> QED
    BY <2>1, <2>2, LeastNumber
<1> DEFINE Is(x) == /\ x \in Period /\ x >= Source[c] /\ x \notin Unavailable
                    /\ \A q \in Source[c] .. (x - 1) : q \in Unavailable
<1>6. Is(p)
  <2>1. ASSUME NEW q \in first .. (p - 1), q \notin Unavailable
        PROVE  FALSE
    <3>1. p \in Period /\ p \in Nat /\ q \in Nat /\ q < p /\ q \in Period /\ q >= first
      BY <1>1 DEF Period
    <3> HIDE DEF first
    <3> QED
      BY <1>5, <2>1, <3>1
  <2> QED
    BY <2>1
<1>7. FirstFree(c) = CHOOSE x : Is(x)
  BY DEF FirstFree
<1>8. Is(FirstFree(c))
  <2> HIDE DEF Is
  <2> QED
    BY <1>6, <1>7
<1> QED
  BY <1>8

-----------------------------------------------------------------------------
(* Types, with what a request plans: periods for certificates, or inputs.  *)
JobRecord == [status : {"absent", "failed"} \union Blocking, period : Period \union {NoPeriod},
              inputs : Seq(Certificate), part : Seq(1 .. MaxParts)]
Parts == Seq({"pending", "processing", "ready", "failed"})
Assigning == UNION {[S -> Period] : S \in SUBSET Certificate}
Request == [at : {"idle", "checked", "resolved", "assigned", "overriding",
                  "selected", "inserted", "accepted", "failing", "done"},
            period : Period \union {NoPeriod}, plan : Seq(Certificate) \union Assigning]
Said == {"none", "submitted", "running"} \union Ended
Working == {"off", "started", "validating", "merging", "merged", "erring", "failing", "failed"}
View == [on : Job \union {NoJob}, saw : {"none", "submitted", "running"}, next : Said]

MergeTypes ==
  /\ job \in [Job -> JobRecord]
  /\ output \in [Job -> Parts]
  /\ known \subseteq Job /\ accepted \subseteq Certificate /\ overridden \subseteq Certificate
  /\ assigned \in [Certificate -> Period \union {NoPeriod}]
  /\ web \in [Job -> Request]
  /\ aws \in [Job -> Said] /\ worker \in [Job -> Working] /\ view \in [Viewer -> View]

(* A job is there once its request has inserted it, and not before.        *)
Early == {"idle", "checked", "resolved", "assigned", "overriding", "selected"}
Makeable(inputs) == Len(inputs) >= MinInputs /\ Partition(inputs).part <= MaxParts

RowFits(j) ==
  IF job[j].status = "absent"
  THEN /\ job[j] = NewJob /\ output[j] = <<>> /\ j \notin known
       /\ aws[j] = "none" /\ worker[j] = "off" /\ web[j].at \in Early \union {"done"}
  ELSE /\ web[j].at \notin Early /\ job[j].period \in Period
       /\ Makeable(job[j].inputs)
       /\ job[j].part = Partition(job[j].inputs).at
       /\ Len(output[j]) = Partition(job[j].inputs).part

(* Where a request is tells what it has found, and AWS Batch knows a job   *)
(* whose id is recorded.                                                   *)
RequestFits(j) ==
  /\ web[j].at \in {"checked", "assigned", "overriding", "selected"} => web[j].period \in Period
  /\ web[j].at = "resolved" => web[j].plan \in Assigning
  /\ web[j].at = "selected" => web[j].plan \in Seq(Certificate) /\ Makeable(web[j].plan)
  /\ web[j].at = "accepted" => aws[j] # "none"
  /\ j \in known => job[j].status \notin {"absent", "pending"} /\ aws[j] # "none"

(* Whoever says that a job has succeeded, all its parts are ready.         *)
Ready(j) == output[j] # <<>> /\ \A p \in DOMAIN output[j] : output[j][p] = "ready"

ReadyFits(j) ==
  job[j].status = "succeeded" \/ worker[j] = "merged" \/ aws[j] = "succeeded" => Ready(j)

(* What goes into a job is assigned to its period, unless a user moved it. *)
PeriodFits(j) ==
  /\ job[j].status # "absent" =>
       \A c \in ToSet(job[j].inputs) \ overridden : assigned[c] = job[j].period
  /\ web[j].at = "selected" =>
       \A c \in ToSet(web[j].plan) \ overridden : assigned[c] = web[j].period

JobFits(j) == RowFits(j) /\ RequestFits(j) /\ ReadyFits(j) /\ PeriodFits(j)

(* A viewer looks at a job whose id is recorded.                           *)
ViewFits(v) ==
  /\ view[v].on = NoJob => view[v].next = "none"
  /\ view[v].on # NoJob =>
       /\ view[v].on \in known
       /\ view[v].next = "succeeded" => Ready(view[v].on)

MergeInv == MergeTypes /\ (\A j \in Job : JobFits(j)) /\ \A v \in Viewer : ViewFits(v)

(* The invariant has what the runs check.                                  *)
LEMMA MergeHolds ==
  MergeInv => MergeTypeOK /\ SucceededIsComplete /\ PartsFit /\ MergedInOnePeriod
<1> SUFFICES ASSUME MergeInv
             PROVE  MergeTypeOK /\ SucceededIsComplete /\ PartsFit /\ MergedInOnePeriod
  OBVIOUS
<1>1. MergeTypeOK
  BY DEF MergeInv, MergeTypes, MergeTypeOK, JobRecord, Parts, Request, Said, Working, View
<1>2. SucceededIsComplete
  BY DEF MergeInv, JobFits, ReadyFits, Ready, SucceededIsComplete
<1>3. PartitionFits
  <2>1. ASSUME NEW inputs \in BoundedSeq(Certificate, 4)
        PROVE  inputs \in Seq(Certificate)
    <3>1. PICK m \in 0 .. 4 : inputs \in [1 .. m -> Certificate]
      BY DEF BoundedSeq, SeqOf
    <3> QED
      BY <3>1
  <2> QED
    BY <2>1, PartitionIsFit DEF PartitionFits
<1>4. ASSUME NEW j \in Job, job[j].status # "absent"
      PROVE  Fits(job[j].inputs, job[j].part) /\ ToSet(job[j].part) = DOMAIN output[j]
  <2>1. /\ job[j].inputs \in Seq(Certificate) /\ output[j] \in Parts
        /\ Len(job[j].inputs) >= MinInputs
        /\ job[j].part = Partition(job[j].inputs).at
        /\ Len(output[j]) = Partition(job[j].inputs).part
    BY <1>4 DEF MergeInv, MergeTypes, JobFits, RowFits, JobRecord, Makeable
  <2>2. job[j].inputs # <<>>
    BY <2>1, MergeAssumption
  <2>3. DOMAIN output[j] = 1 .. Len(output[j])
    BY <2>1 DEF Parts
  <2> QED
    BY <2>1, <2>2, <2>3, PartitionIsFit
<1>5. PartsFit
  BY <1>3, <1>4 DEF PartsFit
<1>6. MergedInOnePeriod
  BY DEF MergeInv, JobFits, PeriodFits, MergedInOnePeriod, Blocking
<1> QED
  BY <1>1, <1>2, <1>5, <1>6

(* The first job is one its request might have made.                       *)
LEMMA MergeInitially == MergeInit => MergeInv
<1> SUFFICES ASSUME MergeInit
             PROVE  MergeInv
  OBVIOUS
<1> DEFINE early == Certificate \ Late
           parts == Partition(OnTime)
<1>1. OnTime \in Seq(early) /\ OnTime \in Seq(Certificate)
  BY InOrderIsOf, SeqMonotonic DEF OnTime
<1>2. Makeable(OnTime) /\ Len(OnTime) > 0
  BY FirstJobAssumption, MergeAssumption, <1>1 DEF Makeable
<1>3. /\ parts.part \in Nat \ {0} /\ parts.part <= MaxParts /\ MaxParts \in Nat
      /\ parts.at \in Seq(1 .. MaxParts)
  <2>1. parts.part \in Nat \ {0} /\ parts.at \in Seq(1 .. parts.part)
    BY <1>1, PartitionIsFit
  <2>2. parts.part <= MaxParts /\ MaxParts \in Nat
    BY FirstJobAssumption, MergeAssumption
  <2>3. 1 .. parts.part \subseteq 1 .. MaxParts
    BY <2>1, <2>2
  <2> HIDE DEF parts
  <2> QED
    BY <2>1, <2>2, <2>3, SeqMonotonic
<1>4. \A c \in early : Source[c] = Source[OnTime[1]] /\ Source[c] \in Period
  <2>1. OnTime[1] \in early
    BY <1>1, <1>2
  <2>2. \A c \in Certificate : Source[c] \in Period
    BY PeriodsLast DEF Period
  <2> QED
    BY <2>1, <2>2, MergeAssumption
<1>5. FirstJob \in Job /\ OnTime[1] \in early /\ Source[OnTime[1]] \in Period
  BY <1>1, <1>2, <1>4, MergeAssumption
<1> DEFINE first == PendingJob(Source[OnTime[1]], OnTime)
           out == [p \in 1 .. parts.part |-> "pending"]
<1>6. /\ first \in JobRecord /\ first.status = "pending" /\ first.inputs = OnTime
      /\ first.period = Source[OnTime[1]] /\ first.part = parts.at
  BY <1>1, <1>3, <1>5 DEF PendingJob, JobRecord, Blocking
<1>7. out \in Parts /\ Len(out) = parts.part
  BY <1>3 DEF Parts
<1>8. NewJob \in JobRecord /\ NewJob.status = "absent" /\ <<>> \in Parts
  BY DEF NewJob, JobRecord, NoPeriod, Parts
<1>9. /\ job[FirstJob] = first /\ \A j \in Job \ {FirstJob} : job[j] = NewJob
      /\ output[FirstJob] = out /\ \A j \in Job \ {FirstJob} : output[j] = <<>>
  BY <1>5 DEF MergeInit
<1> HIDE DEF parts, first, out
<1>10. MergeTypes
  <2>1. job \in [Job -> JobRecord]
    <3>1. job = [j \in Job |-> job[j]]
      BY DEF MergeInit
    <3> QED
      BY <1>6, <1>8, <1>9, <3>1
  <2>2. output \in [Job -> Parts]
    <3>1. output = [j \in Job |-> output[j]]
      BY DEF MergeInit
    <3> QED
      BY <1>7, <1>8, <1>9, <3>1
  <2>3. web \in [Job -> Request]
    <3>1. /\ IdleRequest \in Request
          /\ [IdleRequest EXCEPT !.at = "inserted"] \in Request
          /\ [IdleRequest EXCEPT !.at = "idle"] \in Request
      <4> DEFINE plans == Seq(Certificate) \union Assigning
      <4>1. <<>> \in plans
        OBVIOUS
      <4>2. Request = [at : {"idle", "checked", "resolved", "assigned", "overriding",
                             "selected", "inserted", "accepted", "failing", "done"},
                       period : Period \union {NoPeriod}, plan : plans]
        BY DEF Request
      <4> HIDE DEF plans
      <4> QED
        BY <4>1, <4>2 DEF IdleRequest
    <3>2. web = [j \in Job |-> IF j = FirstJob THEN [IdleRequest EXCEPT !.at = "inserted"]
                                               ELSE [IdleRequest EXCEPT !.at = "idle"]]
      BY DEF MergeInit, IdleRequest
    <3> QED
      BY <3>1, <3>2
  <2>4. assigned \in [Certificate -> Period \union {NoPeriod}]
    BY <1>4 DEF MergeInit
  <2>5. view \in [Viewer -> View]
    BY DEF MergeInit, IdleView, View, Said
  <2> QED
    BY <2>1, <2>2, <2>3, <2>4, <2>5 DEF MergeInit, MergeTypes, Said, Working
<1>11. ASSUME NEW j \in Job
       PROVE  JobFits(j)
  <2>1. /\ web[j].at = IF j = FirstJob THEN "inserted" ELSE "idle"
        /\ aws[j] = "none" /\ worker[j] = "off" /\ j \notin known /\ overridden = {}
    BY DEF MergeInit, IdleRequest
  <2>2. \A c \in ToSet(OnTime) : assigned[c] = Source[OnTime[1]]
    BY <1>1, <1>4 DEF MergeInit, ToSet
  <2>3. RowFits(j)
    BY <1>2, <1>5, <1>6, <1>7, <1>8, <1>9, <2>1 DEF RowFits, Early, parts
  <2> QED
    BY <1>6, <1>8, <1>9, <2>1, <2>2, <2>3 DEF JobFits, RequestFits, ReadyFits, PeriodFits
<1>12. \A v \in Viewer : ViewFits(v)
  BY DEF MergeInit, ViewFits, IdleView
<1> QED
  BY <1>10, <1>11, <1>12 DEF MergeInv

(* A step that moves at most one job.                                      *)
Others(j) ==
  \A k \in Job \ {j} :
    /\ job'[k] = job[k] /\ output'[k] = output[k] /\ (k \in known' <=> k \in known)
    /\ web'[k] = web[k] /\ aws'[k] = aws[k] /\ worker'[k] = worker[k]

(* What is assigned stays so, but for what a user moves.                   *)
Steady ==
  \A c \in Certificate \ overridden' :
    c \notin overridden /\ (assigned[c] # NoPeriod => assigned'[c] = assigned[c])

(* Such a step keeps the invariant if it keeps it for the job that moves.  *)
LEMMA OneJobMoves ==
  ASSUME MergeInv, MergeTypes', Steady, NEW j \in Job, Others(j),
         \A v \in Viewer : view'[v] = view[v] \/ view'[v] = IdleView,
         j \in known => j \in known', Ready(j) => Ready(j)', JobFits(j)'
  PROVE  MergeInv'
<1>1. NoPeriod \notin Period
  BY DEF Period, NoPeriod
<1>2. ASSUME NEW k \in Job \ {j}
      PROVE  JobFits(k)'
  <2>1. /\ job'[k] = job[k] /\ output'[k] = output[k] /\ (k \in known' <=> k \in known)
        /\ web'[k] = web[k] /\ aws'[k] = aws[k] /\ worker'[k] = worker[k]
    BY DEF Others
  <2>2. JobFits(k) /\ job[k] \in JobRecord
    BY DEF MergeInv, MergeTypes
  <2>3. RowFits(k)' /\ RequestFits(k)' /\ ReadyFits(k)'
    BY <2>1, <2>2 DEF JobFits, RowFits, RequestFits, ReadyFits, Ready
  <2>4. ASSUME job[k].status # "absent", NEW c \in ToSet(job[k].inputs) \ overridden'
        PROVE  assigned'[c] = job[k].period
    <3>1. c \in Certificate
      BY <2>2, <2>4 DEF JobRecord, ToSet
    <3> QED
      BY <1>1, <2>2, <2>4, <3>1 DEF JobFits, RowFits, PeriodFits, Steady
  <2>5. ASSUME web[k].at = "selected", NEW c \in ToSet(web[k].plan) \ overridden'
        PROVE  assigned'[c] = web[k].period
    <3>1. c \in Certificate
      BY <2>2, <2>5 DEF JobFits, RequestFits, ToSet
    <3> QED
      BY <1>1, <2>2, <2>5, <3>1 DEF JobFits, RequestFits, PeriodFits, Steady
  <2> QED
    BY <2>1, <2>3, <2>4, <2>5 DEF JobFits, PeriodFits
<1>3. ASSUME NEW v \in Viewer
      PROVE  ViewFits(v)'
  <2>1. ViewFits(v) /\ view[v].on \in Job \union {NoJob}
    BY DEF MergeInv, MergeTypes, View
  <2>2. \A k \in Job : (k \in known => k \in known') /\ (Ready(k) => Ready(k)')
    BY DEF Others, Ready
  <2>3. CASE view'[v] = IdleView
    BY <2>3 DEF ViewFits, IdleView
  <2>4. CASE view'[v] = view[v]
    BY <2>1, <2>2, <2>4 DEF ViewFits, Ready
  <2> QED
    BY <2>3, <2>4
<1>4. \A k \in Job : JobFits(k)'
  BY <1>2
<1>5. \A v \in Viewer : ViewFits(v)'
  BY <1>3
<1> QED
  BY <1>4, <1>5 DEF MergeInv

-----------------------------------------------------------------------------
(* What a request may come to be, for the job as it is.                    *)
MayAsk(j, q) ==
  /\ q \in Request
  /\ IF job[j].status = "absent" THEN q.at \in Early \union {"done"} ELSE q.at \notin Early
  /\ q.at \in {"checked", "assigned", "overriding", "selected"} => q.period \in Period
  /\ q.at = "resolved" => q.plan \in Assigning
  /\ q.at = "selected" => /\ q.plan \in Seq(Certificate) /\ Makeable(q.plan)
                          /\ \A c \in ToSet(q.plan) \ overridden : assigned[c] = q.period
  /\ q.at = "accepted" => aws[j] # "none"

(* A request that only reads, or gives up, keeps the invariant.            *)
LEMMA RequestMoves ==
  ASSUME MergeInv, NEW j \in Job, NEW q, MayAsk(j, q), web' = [web EXCEPT ![j] = q],
         UNCHANGED <<rowVars, assignVars, aws, worker, view>>
  PROVE  MergeInv'
<1>1. /\ job' = job /\ output' = output /\ known' = known /\ aws' = aws /\ worker' = worker
      /\ accepted' = accepted /\ assigned' = assigned /\ overridden' = overridden
      /\ view' = view
  BY DEF rowVars, assignVars
<1>2. MergeTypes /\ JobFits(j) /\ q \in Request
  BY DEF MergeInv, MayAsk
<1>3. web'[j] = q /\ \A k \in Job \ {j} : web'[k] = web[k]
  BY <1>2 DEF MergeTypes
<1>4. web' \in [Job -> Request]
  BY <1>2 DEF MergeTypes
<1>5. MergeTypes'
  BY <1>1, <1>2, <1>4 DEF MergeTypes
<1>6. Steady /\ Others(j)
  BY <1>1, <1>3 DEF Steady, Others
<1>7. JobFits(j)'
  <2>1. RowFits(j)'
    BY <1>1, <1>2, <1>3 DEF JobFits, RowFits, MayAsk
  <2>2. RequestFits(j)'
    BY <1>1, <1>2, <1>3 DEF JobFits, RequestFits, MayAsk
  <2>3. ReadyFits(j)' /\ PeriodFits(j)'
    BY <1>1, <1>2, <1>3 DEF JobFits, ReadyFits, Ready, PeriodFits, MayAsk
  <2> QED
    BY <2>1, <2>2, <2>3 DEF JobFits
<1> QED
  BY <1>1, <1>5, <1>6, <1>7, OneJobMoves DEF Ready

(* A job that is there is given a status by its request, by its worker or  *)
(* by a viewer, while its request, AWS Batch or its worker goes on.        *)
Moves(j, s, q, a, w) ==
  /\ job[j].status # "absent" /\ s \in {"failed"} \union Blocking
  /\ q \in Request /\ a \in Said /\ w \in Working
  /\ job' = [job EXCEPT ![j].status = s] /\ web' = [web EXCEPT ![j] = q]
  /\ aws' = [aws EXCEPT ![j] = a] /\ worker' = [worker EXCEPT ![j] = w]
  /\ known' = known \/ known' = known \union {j}
  /\ UNCHANGED <<output, assignVars>> /\ view' \in [Viewer -> View]
  /\ \A v \in Viewer : view'[v] = view[v] \/ view'[v] = IdleView
  /\ q.at \notin Early /\ (q.at = "accepted" => a # "none")
  /\ j \in known' => s # "pending" /\ a # "none"
  /\ s = "succeeded" \/ w = "merged" \/ a = "succeeded" => Ready(j)

(* Such a move keeps the invariant.                                        *)
LEMMA JobMoves ==
  ASSUME MergeInv, NEW j \in Job, NEW s, NEW q, NEW a, NEW w, Moves(j, s, q, a, w)
  PROVE  MergeInv'
<1>1. /\ job[j].status # "absent" /\ s \in {"failed"} \union Blocking
      /\ q \in Request /\ a \in Said /\ w \in Working
      /\ q.at \notin Early /\ (q.at = "accepted" => a # "none")
      /\ j \in known' => s # "pending" /\ a # "none"
      /\ s = "succeeded" \/ w = "merged" \/ a = "succeeded" => Ready(j)
  BY DEF Moves
<1>2. /\ job' = [job EXCEPT ![j].status = s] /\ web' = [web EXCEPT ![j] = q]
      /\ aws' = [aws EXCEPT ![j] = a] /\ worker' = [worker EXCEPT ![j] = w]
      /\ known' = known \/ known' = known \union {j}
      /\ UNCHANGED <<output, assignVars>>
  BY DEF Moves
<1>3. /\ view' \in [Viewer -> View]
      /\ \A v \in Viewer : view'[v] = view[v] \/ view'[v] = IdleView
  BY DEF Moves
<1>4. /\ output' = output /\ accepted' = accepted /\ assigned' = assigned
      /\ overridden' = overridden
  BY <1>2 DEF assignVars
<1>5. MergeTypes /\ JobFits(j)
  BY DEF MergeInv
<1>6. /\ job'[j] = [job[j] EXCEPT !.status = s] /\ \A k \in Job \ {j} : job'[k] = job[k]
      /\ web'[j] = q /\ \A k \in Job \ {j} : web'[k] = web[k]
      /\ aws'[j] = a /\ \A k \in Job \ {j} : aws'[k] = aws[k]
      /\ worker'[j] = w /\ \A k \in Job \ {j} : worker'[k] = worker[k]
      /\ j \in known => j \in known'
      /\ \A k \in Job \ {j} : k \in known' <=> k \in known
  BY <1>2, <1>5 DEF MergeTypes
<1>7. job[j] \in JobRecord
  BY <1>5 DEF MergeTypes
<1>8. /\ job'[j] \in JobRecord /\ job'[j].status = s /\ job'[j].inputs = job[j].inputs
      /\ job'[j].part = job[j].part /\ job'[j].period = job[j].period
  <2>1. job'[j] = [status |-> s, period |-> job[j].period, inputs |-> job[j].inputs,
                   part |-> job[j].part]
    BY <1>6, <1>7 DEF JobRecord
  <2>2. /\ job[j].period \in Period \union {NoPeriod} /\ job[j].inputs \in Seq(Certificate)
        /\ job[j].part \in Seq(1 .. MaxParts)
    BY <1>7 DEF JobRecord
  <2> QED
    BY <1>1, <2>1, <2>2 DEF JobRecord
<1>9. MergeTypes'
  <2>1. job' \in [Job -> JobRecord]
    BY <1>5, <1>6, <1>8, <1>2 DEF MergeTypes
  <2>2. web' \in [Job -> Request] /\ aws' \in [Job -> Said] /\ worker' \in [Job -> Working]
    BY <1>1, <1>5, <1>2 DEF MergeTypes
  <2>3. known' \subseteq Job
    BY <1>1, <1>5, <1>2 DEF MergeTypes
  <2> QED
    BY <1>4, <1>5, <1>3, <2>1, <2>2, <2>3 DEF MergeTypes
<1>10. Steady /\ Others(j)
  BY <1>4, <1>6 DEF Steady, Others
<1>11. s # "absent"
  BY <1>1 DEF Blocking
<1>12. JobFits(j)'
  <2>1. /\ web'[j] = q /\ aws'[j] = a /\ worker'[j] = w /\ output'[j] = output[j]
        /\ assigned' = assigned /\ overridden' = overridden
    BY <1>4, <1>6
  <2>2. q.at \notin Early /\ job[j].status # "absent" /\ q.at # "selected"
    BY <1>1 DEF Early
  <2>3. RowFits(j)'
    BY <1>5, <1>8, <1>11, <2>1, <2>2 DEF JobFits, RowFits
  <2>4. RequestFits(j)'
    <3>1. q.at \notin {"checked", "resolved", "assigned", "overriding", "selected"}
      BY <2>2 DEF Early
    <3>2. q.at = "accepted" => a # "none"
      BY <1>1
    <3>3. j \in known' => job'[j].status \notin {"absent", "pending"} /\ a # "none"
      BY <1>1, <1>8, <1>11
    <3> QED
      BY <2>1, <3>1, <3>2, <3>3 DEF RequestFits
  <2>5. ReadyFits(j)'
    BY <1>1, <1>8, <2>1 DEF ReadyFits, Ready
  <2>6. PeriodFits(j)'
    BY <1>5, <1>8, <2>1, <2>2 DEF JobFits, PeriodFits
  <2> QED
    BY <2>3, <2>4, <2>5, <2>6 DEF JobFits
<1> QED
  BY <1>3, <1>4, <1>6, <1>9, <1>10, <1>12, OneJobMoves DEF Ready

(* The worker works at the parts of a job that is not all ready.           *)
LEMMA PartsMove ==
  ASSUME MergeInv, NEW j \in Job, job[j].status # "absent", ~ Ready(j),
         NEW out \in Parts, Len(out) = Len(output[j]), NEW w \in Working \ {"merged"},
         output' = [output EXCEPT ![j] = out], worker' = [worker EXCEPT ![j] = w],
         UNCHANGED <<job, known, assignVars, web, aws, view>>
  PROVE  MergeInv'
<1>1. /\ job' = job /\ known' = known /\ aws' = aws /\ web' = web /\ view' = view
      /\ accepted' = accepted /\ assigned' = assigned /\ overridden' = overridden
  BY DEF assignVars
<1>2. MergeTypes /\ JobFits(j)
  BY DEF MergeInv
<1>3. /\ output'[j] = out /\ \A k \in Job \ {j} : output'[k] = output[k]
      /\ worker'[j] = w /\ \A k \in Job \ {j} : worker'[k] = worker[k]
  BY <1>2 DEF MergeTypes
<1>4. output' \in [Job -> Parts] /\ worker' \in [Job -> Working]
  BY <1>2 DEF MergeTypes
<1>5. MergeTypes'
  BY <1>1, <1>2, <1>4 DEF MergeTypes
<1>6. Steady /\ Others(j)
  BY <1>1, <1>3 DEF Steady, Others
<1>7. JobFits(j)'
  <2>1. RowFits(j)'
    BY <1>1, <1>2, <1>3 DEF JobFits, RowFits
  <2>2. RequestFits(j)' /\ ReadyFits(j)' /\ PeriodFits(j)'
    BY <1>1, <1>2, <1>3 DEF JobFits, RequestFits, ReadyFits, Ready, PeriodFits
  <2> QED
    BY <2>1, <2>2 DEF JobFits
<1> QED
  BY <1>1, <1>5, <1>6, <1>7, OneJobMoves

-----------------------------------------------------------------------------
(* The invariant names what is known of a job before a step.               *)
LEMMA OfJob ==
  ASSUME MergeInv, NEW j \in Job
  PROVE  /\ MergeTypes /\ JobFits(j)
         /\ job[j] \in JobRecord /\ output[j] \in Parts /\ web[j] \in Request
         /\ aws[j] \in Said /\ worker[j] \in Working
         /\ job[j].status \in {"absent", "failed"} \union Blocking
         /\ web[j] = [at |-> web[j].at, period |-> web[j].period, plan |-> web[j].plan]
         /\ web[j].at \notin Early \union {"done"} \/ worker[j] # "off"
              \/ aws[j] # "none" \/ j \in known => job[j].status # "absent"
         /\ job[j].status = "absent" => web[j].at \in Early \union {"done"}
         /\ job[j].status # "absent" => web[j].at \notin Early
<1>1. MergeTypes /\ JobFits(j)
  BY DEF MergeInv
<1>2. /\ job[j] \in JobRecord /\ output[j] \in Parts /\ web[j] \in Request
      /\ aws[j] \in Said /\ worker[j] \in Working
  BY <1>1 DEF MergeTypes
<1> QED
  BY <1>1, <1>2 DEF JobFits, RowFits, JobRecord, Request

(* What does not move is given the value it has.                           *)
LEMMA Stays ==
  ASSUME MergeTypes, NEW j \in Job
  PROVE  /\ job = [job EXCEPT ![j].status = job[j].status]
         /\ web = [web EXCEPT ![j] = web[j]] /\ aws = [aws EXCEPT ![j] = aws[j]]
         /\ worker = [worker EXCEPT ![j] = worker[j]]
<1>1. job[j] \in JobRecord /\ job \in [Job -> JobRecord]
  BY DEF MergeTypes
<1>2. job[j] = [job[j] EXCEPT !.status = job[j].status]
  BY <1>1 DEF JobRecord
<1>3. job = [job EXCEPT ![j] = [job[j] EXCEPT !.status = job[j].status]]
  BY <1>1, <1>2
<1> QED
  BY <1>3 DEF MergeTypes

(* A request that is idle, or done, is one that may be.                    *)
LEMMA IdleIsRequest ==
  /\ IdleRequest \in Request /\ IdleRequest.at = "idle"
  /\ [IdleRequest EXCEPT !.at = "done"] \in Request
  /\ [IdleRequest EXCEPT !.at = "done"].at = "done"
<1> DEFINE plans == Seq(Certificate) \union Assigning
<1>1. <<>> \in plans
  OBVIOUS
<1>2. Request = [at : {"idle", "checked", "resolved", "assigned", "overriding",
                       "selected", "inserted", "accepted", "failing", "done"},
                 period : Period \union {NoPeriod}, plan : plans]
  BY DEF Request
<1> HIDE DEF plans
<1> QED
  BY <1>1, <1>2 DEF IdleRequest

(* A request that moves is a record again.                                 *)
LEMMA RequestIs ==
  ASSUME MergeTypes, NEW j \in Job, NEW at, NEW plan
  PROVE  /\ [web EXCEPT ![j].at = at]
              = [web EXCEPT ![j] = [at |-> at, period |-> web[j].period, plan |-> web[j].plan]]
         /\ [web EXCEPT ![j].at = at, ![j].plan = plan]
              = [web EXCEPT ![j] = [at |-> at, period |-> web[j].period, plan |-> plan]]
<1>1. web \in [Job -> Request] /\ web[j] \in Request
  BY DEF MergeTypes
<1>2. web[j] = [at |-> web[j].at, period |-> web[j].period, plan |-> web[j].plan]
  BY <1>1 DEF Request
<1>3. [web[j] EXCEPT !.at = at]
        = [at |-> at, period |-> web[j].period, plan |-> web[j].plan]
  BY <1>2
<1>4. ASSUME NEW s, s = [at |-> at, period |-> web[j].period, plan |-> web[j].plan]
      PROVE  [s EXCEPT !.plan = plan] = [at |-> at, period |-> web[j].period, plan |-> plan]
  BY <1>4
<1>5. [web[j] EXCEPT !.at = at, !.plan = plan]
        = [at |-> at, period |-> web[j].period, plan |-> plan]
  BY <1>3, <1>4
<1>6. /\ [web EXCEPT ![j].at = at] = [web EXCEPT ![j] = [web[j] EXCEPT !.at = at]]
      /\ [web EXCEPT ![j].at = at, ![j].plan = plan]
           = [web EXCEPT ![j] = [web[j] EXCEPT !.at = at, !.plan = plan]]
  BY <1>1
<1> QED
  BY <1>3, <1>5, <1>6

(* A request looks whether a period is free.                               *)
LEMMA CheckKeeps ==
  ASSUME MergeInv, NEW j \in Job, NEW p \in Period, CheckPeriod(j, p) \/ CheckOverride(j, p)
  PROVE  MergeInv'
<1>1. /\ web[j].at = "idle"
      /\ UNCHANGED <<rowVars, assignVars, aws, worker, view>>
  BY DEF CheckPeriod, CheckOverride
<1>2. web \in [Job -> Request] /\ web[j] \in Request
  BY OfJob DEF MergeTypes
<1>3. web[j] = [at |-> web[j].at, period |-> web[j].period, plan |-> web[j].plan]
  BY <1>2 DEF Request
<1>4. ASSUME NEW at \in {"checked", "overriding"},
             web' = [web EXCEPT ![j].at = at, ![j].period = p]
      PROVE  MergeInv'
  <2> DEFINE q == [at |-> at, period |-> p, plan |-> web[j].plan]
  <2>1. q \in Request
    BY <1>2 DEF Request
  <2>2. [web[j] EXCEPT !.at = at] = [at |-> at, period |-> web[j].period, plan |-> web[j].plan]
    BY <1>3
  <2>3. ASSUME NEW s, s = [at |-> at, period |-> web[j].period, plan |-> web[j].plan]
        PROVE  [s EXCEPT !.period = p] = q
    BY <2>3
  <2>4. [web[j] EXCEPT !.at = at, !.period = p] = q
    BY <2>2, <2>3
  <2>5. [web EXCEPT ![j].at = at, ![j].period = p]
          = [web EXCEPT ![j] = [web[j] EXCEPT !.at = at, !.period = p]]
    BY <1>2
  <2>6. web' = [web EXCEPT ![j] = q]
    BY <1>4, <2>4, <2>5
  <2>7. MayAsk(j, q)
    BY <1>1, <2>1, OfJob DEF MayAsk, Early
  <2> HIDE DEF q
  <2> QED
    BY <1>1, <2>6, <2>7, RequestMoves
<1> QED
  BY <1>4 DEF CheckPeriod, CheckOverride

(* A request finds periods for certificates that have none.                *)
LEMMA ResolveKeeps ==
  ASSUME MergeInv, NEW j \in Job, ResolveAssignments(j)
  PROVE  MergeInv'
<1> DEFINE plan == [c \in Unassigned |-> FirstFree(c)]
           q == [at |-> "resolved", period |-> web[j].period, plan |-> plan]
<1>1. Unassigned \subseteq Certificate
  BY OfJob DEF Unassigned, MergeTypes
<1>2. \A c \in Unassigned : FirstFree(c) \in Period
  BY <1>1, FirstFreeIs
<1>3. plan \in Assigning
  BY <1>1, <1>2 DEF Assigning
<1>4. web' = [web EXCEPT ![j].at = "resolved", ![j].plan = plan]
  BY DEF ResolveAssignments
<1> HIDE DEF plan
<1>5. web \in [Job -> Request] /\ web[j] \in Request /\ q \in Request
  BY <1>3, OfJob DEF MergeTypes, Request
<1>6. web' = [web EXCEPT ![j] = q]
  <2>1. MergeTypes
    BY OfJob
  <2>2. [web EXCEPT ![j].at = "resolved", ![j].plan = plan]
          = [web EXCEPT ![j] = [at |-> "resolved", period |-> web[j].period, plan |-> plan]]
    BY <2>1, RequestIs
  <2> QED
    BY <1>4, <2>2
<1>7. MayAsk(j, q)
  BY <1>3, <1>5, OfJob DEF MayAsk, Early, ResolveAssignments
<1> HIDE DEF q
<1> QED
  BY <1>6, <1>7, RequestMoves DEF ResolveAssignments

(* A request selects certificates of the period, which fit its parts.      *)
LEMMA SelectKeeps ==
  ASSUME MergeInv, NEW j \in Job, SelectCandidates(j)
  PROVE  MergeInv'
<1>1. PICK S \in SUBSET {c \in Certificate : assigned[c] = web[j].period} :
        /\ Makeable(InOrder(S))
        /\ web' = [web EXCEPT ![j].at = "selected", ![j].plan = InOrder(S)]
  BY DEF SelectCandidates, Makeable
<1>2. PICK inputs : inputs = InOrder(S)
  OBVIOUS
<1> DEFINE q == [at |-> "selected", period |-> web[j].period, plan |-> inputs]
<1>3. inputs \in Seq(S) /\ inputs \in Seq(Certificate)
  <2>1. S \in SUBSET Certificate
    OBVIOUS
  <2>2. inputs \in Seq(S)
    BY <1>2, <2>1, InOrderIsOf
  <2> QED
    BY <2>1, <2>2, SeqMonotonic
<1>4. \A c \in ToSet(inputs) : assigned[c] = web[j].period
  BY <1>3 DEF ToSet
<1>5. web \in [Job -> Request] /\ web[j] \in Request /\ q \in Request
  BY <1>3, OfJob DEF MergeTypes, Request
<1>6. web' = [web EXCEPT ![j] = q]
  <2>1. MergeTypes
    BY OfJob
  <2>2. [web EXCEPT ![j].at = "selected", ![j].plan = inputs]
          = [web EXCEPT ![j] = [at |-> "selected", period |-> web[j].period, plan |-> inputs]]
    BY <2>1, RequestIs
  <2> QED
    BY <1>1, <1>2, <2>2
<1>7. web[j].at = "assigned" /\ web[j].period \in Period
  BY OfJob DEF SelectCandidates, JobFits, RequestFits
<1>8. MayAsk(j, q)
  BY <1>1, <1>2, <1>3, <1>4, <1>5, <1>7, OfJob DEF MayAsk, Early
<1> HIDE DEF q
<1> QED
  BY <1>6, <1>8, RequestMoves DEF SelectCandidates

(* A request fails or stops.                                               *)
LEMMA StopKeeps ==
  ASSUME MergeInv, NEW j \in Job, SubmitFails(j) \/ RecordingFails(j) \/ RequestStops(j)
  PROVE  MergeInv'
<1>1. CASE RequestStops(j)
  <2> DEFINE q == [IdleRequest EXCEPT !.at = "done"]
  <2>1. MayAsk(j, q)
    BY OfJob, IdleIsRequest DEF MayAsk, Early
  <2>2. web' = [web EXCEPT ![j] = q]
    BY <1>1 DEF RequestStops, Finished
  <2> HIDE DEF q
  <2> QED
    BY <1>1, <2>1, <2>2, RequestMoves DEF RequestStops
<1>2. CASE SubmitFails(j) \/ RecordingFails(j)
  <2> DEFINE q == [at |-> "failing", period |-> web[j].period, plan |-> web[j].plan]
  <2>1. /\ web[j].at \in {"inserted", "accepted"} /\ web' = [web EXCEPT ![j].at = "failing"]
        /\ UNCHANGED <<rowVars, assignVars, aws, worker, view>>
    BY <1>2 DEF SubmitFails, RecordingFails, Step
  <2>2. web \in [Job -> Request] /\ web[j] \in Request /\ q \in Request
    BY OfJob DEF MergeTypes, Request
  <2>3. web' = [web EXCEPT ![j] = q]
    BY <2>1, RequestIs, OfJob
  <2>4. MayAsk(j, q)
    BY <2>1, <2>2, OfJob DEF MayAsk, Early
  <2> HIDE DEF q
  <2> QED
    BY <2>1, <2>3, <2>4, RequestMoves
<1> QED
  BY <1>1, <1>2

-----------------------------------------------------------------------------
(* A job that is there has parts.                                          *)
LEMMA HasParts ==
  ASSUME MergeInv, NEW j \in Job, job[j].status # "absent"
  PROVE  output[j] # <<>> /\ DOMAIN output[j] = 1 .. Len(output[j])
<1>1. job[j].inputs \in Seq(Certificate) /\ output[j] \in Parts
  BY OfJob DEF JobRecord
<1>2. Len(output[j]) = Partition(job[j].inputs).part
  BY OfJob DEF JobFits, RowFits
<1>3. Partition(job[j].inputs).part \in Nat \ {0}
  BY <1>1, PartitionIsFit
<1> QED
  BY <1>1, <1>2, <1>3 DEF Parts

(* The current part is the first that is not ready.                        *)
LEMMA CurrentIs ==
  ASSUME NEW j \in Job, output[j] \in Parts
  PROVE  /\ Current(j) = 0 => \A p \in DOMAIN output[j] : output[j][p] = "ready"
         /\ Current(j) # 0 => /\ Current(j) \in DOMAIN output[j]
                              /\ output[j][Current(j)] # "ready"
<1> DEFINE I == {i \in 1 .. Len(output[j]) : output[j][i] # "ready"}
<1>1. Current(j) = IF I # {} THEN Min(I) ELSE 0
  BY DEF Current, SelectInSeq
<1>2. DOMAIN output[j] = 1 .. Len(output[j])
  BY DEF Parts
<1>3. ASSUME I # {}
      PROVE  Min(I) \in I
  <2>1. PICK m \in I : TRUE
    BY <1>3
  <2>2. \E n \in I : \A k \in I : n <= k
    <3>1. I \subseteq Nat
      OBVIOUS
    <3> HIDE DEF I
    <3> QED
      BY <2>1, <3>1, LeastNumber
  <2> QED
    BY <2>2 DEF Min
<1>4. 0 \notin I
  OBVIOUS
<1> QED
  BY <1>1, <1>2, <1>3, <1>4

(* A request inserts the assignments it planned, where there is none yet.  *)
LEMMA InsertAssignmentsKeeps ==
  ASSUME MergeInv, NEW j \in Job, InsertAssignments(j)
  PROVE  MergeInv'
<1> DEFINE at == IF web[j].period = NoPeriod THEN "idle" ELSE "assigned"
           q == [at |-> at, period |-> web[j].period, plan |-> <<>>]
<1>1. /\ job' = job /\ output' = output /\ known' = known /\ aws' = aws /\ worker' = worker
      /\ view' = view /\ accepted' = accepted /\ overridden' = overridden
      /\ web[j].at = "resolved"
      /\ web' = [web EXCEPT ![j].plan = <<>>, ![j].at = at]
  BY DEF InsertAssignments, rowVars
<1>2. /\ MergeTypes /\ JobFits(j) /\ web[j] \in Request /\ web \in [Job -> Request]
      /\ web[j].plan \in Assigning /\ web[j].period \in Period \union {NoPeriod}
      /\ job[j].status = "absent"
  <2>1. web[j].at = "resolved" /\ web[j].at \in Early
    BY <1>1 DEF Early
  <2> QED
    BY <2>1, OfJob DEF MergeTypes, JobFits, RequestFits, Request
<1>3. web[j] = [at |-> web[j].at, period |-> web[j].period, plan |-> web[j].plan]
  BY <1>2 DEF Request
<1> HIDE DEF at
<1>4. web' = [web EXCEPT ![j] = q]
  <2>1. [web[j] EXCEPT !.plan = <<>>]
          = [at |-> web[j].at, period |-> web[j].period, plan |-> <<>>]
    BY <1>3
  <2>2. ASSUME NEW s, s = [at |-> web[j].at, period |-> web[j].period, plan |-> <<>>]
        PROVE  [s EXCEPT !.at = at] = q
    BY <2>2
  <2>3. [web[j] EXCEPT !.plan = <<>>, !.at = at] = q
    BY <2>1, <2>2
  <2>4. [web EXCEPT ![j].plan = <<>>, ![j].at = at]
          = [web EXCEPT ![j] = [web[j] EXCEPT !.plan = <<>>, !.at = at]]
    BY <1>2
  <2> QED
    BY <1>1, <2>3, <2>4
<1>5. /\ q \in Request /\ q.at \in Early /\ q.at \notin {"resolved", "selected", "accepted"}
      /\ q.at \in {"checked", "assigned", "overriding", "selected"} => q.period \in Period
  <2> DEFINE plans == Seq(Certificate) \union Assigning
  <2>1. <<>> \in plans
    OBVIOUS
  <2>2. Request = [at : {"idle", "checked", "resolved", "assigned", "overriding",
                         "selected", "inserted", "accepted", "failing", "done"},
                   period : Period \union {NoPeriod}, plan : plans]
    BY DEF Request
  <2> HIDE DEF plans
  <2> QED
    BY <1>2, <2>1, <2>2 DEF at, Early
<1> HIDE DEF q
<1>6. web'[j] = q /\ \A k \in Job \ {j} : web'[k] = web[k]
  BY <1>2, <1>4
<1>7. /\ assigned' \in [Certificate -> Period \union {NoPeriod}]
      /\ \A c \in Certificate : assigned[c] # NoPeriod => assigned'[c] = assigned[c]
  <2>1. /\ \A c \in DOMAIN web[j].plan : web[j].plan[c] \in Period
        /\ assigned \in [Certificate -> Period \union {NoPeriod}]
    BY <1>2 DEF Assigning, MergeTypes
  <2>2. assigned' = [c \in Certificate |->
          IF c \in DOMAIN web[j].plan /\ assigned[c] = NoPeriod THEN web[j].plan[c]
                                                               ELSE assigned[c]]
    BY DEF InsertAssignments
  <2> QED
    BY <2>1, <2>2
<1>8. web' \in [Job -> Request]
  BY <1>2, <1>4, <1>5
<1>9. MergeTypes'
  BY <1>1, <1>2, <1>7, <1>8 DEF MergeTypes
<1>10. Steady /\ Others(j)
  BY <1>1, <1>6, <1>7 DEF Steady, Others
<1>11. JobFits(j)'
  <2>1. RowFits(j)'
    BY <1>1, <1>2, <1>5, <1>6 DEF JobFits, RowFits
  <2>2. RequestFits(j)' /\ ReadyFits(j)' /\ PeriodFits(j)'
    BY <1>1, <1>2, <1>5, <1>6 DEF JobFits, RequestFits, ReadyFits, Ready, PeriodFits
  <2> QED
    BY <2>1, <2>2 DEF JobFits
<1> QED
  BY <1>1, <1>9, <1>10, <1>11, OneJobMoves DEF Ready

(* A user moves a certificate: to a period, and out of the hypothesis.     *)
LEMMA OverrideKeeps ==
  ASSUME MergeInv, NEW j \in Job, NEW c \in Movable, OverrideAssignment(j, c)
  PROVE  MergeInv'
<1>1. /\ job' = job /\ output' = output /\ known' = known /\ aws' = aws /\ worker' = worker
      /\ view' = view /\ accepted' = accepted /\ overridden' = overridden \union {c}
      /\ web[j].at = "overriding" /\ assigned' = [assigned EXCEPT ![c] = web[j].period]
      /\ web' = [web EXCEPT ![j] = IdleRequest]
  BY DEF OverrideAssignment, rowVars
<1>2. /\ MergeTypes /\ JobFits(j) /\ web[j].period \in Period /\ job[j].status = "absent"
      /\ c \in Certificate
  <2>1. web[j].at = "overriding" /\ web[j].at \in Early
    BY <1>1 DEF Early
  <2> QED
    BY <2>1, OfJob, MergeAssumption DEF JobFits, RequestFits
<1>3. web'[j] = IdleRequest /\ \A k \in Job \ {j} : web'[k] = web[k]
  BY <1>1, <1>2 DEF MergeTypes
<1>4. MergeTypes'
  <2>1. web' \in [Job -> Request] /\ assigned' \in [Certificate -> Period \union {NoPeriod}]
    BY <1>1, <1>2, IdleIsRequest DEF MergeTypes
  <2> QED
    BY <1>1, <1>2, <2>1 DEF MergeTypes
<1>5. Steady /\ Others(j)
  BY <1>1, <1>2, <1>3 DEF Steady, Others, MergeTypes
<1>6. JobFits(j)'
  <2>1. RowFits(j)'
    BY <1>1, <1>2, <1>3, IdleIsRequest DEF JobFits, RowFits, Early
  <2>2. RequestFits(j)' /\ ReadyFits(j)' /\ PeriodFits(j)'
    BY <1>1, <1>2, <1>3, IdleIsRequest DEF JobFits, RequestFits, ReadyFits, Ready, PeriodFits
  <2> QED
    BY <2>1, <2>2 DEF JobFits
<1> QED
  BY <1>1, <1>4, <1>5, <1>6, OneJobMoves DEF Ready

(* A request inserts its job, with the inputs and the parts it computed.   *)
LEMMA InsertJobKeeps ==
  ASSUME MergeInv, NEW j \in Job, InsertJob(j)
  PROVE  MergeInv'
<1>1. PICK inputs : inputs = web[j].plan
  OBVIOUS
<1>2. PICK parts : parts = Partition(inputs)
  OBVIOUS
<1> DEFINE row == [status |-> "pending", period |-> web[j].period, inputs |-> inputs,
                   part |-> parts.at]
           out == [p \in 1 .. parts.part |-> "pending"]
           q == [at |-> "inserted", period |-> web[j].period, plan |-> <<>>]
<1>3. /\ job' = [job EXCEPT ![j] = row] /\ output' = [output EXCEPT ![j] = out]
      /\ known' = known /\ aws' = aws /\ worker' = worker
      /\ view' = view /\ accepted' = accepted /\ assigned' = assigned
      /\ overridden' = overridden /\ web[j].at = "selected"
      /\ web' = [web EXCEPT ![j].at = "inserted", ![j].plan = <<>>]
  BY <1>1, <1>2 DEF InsertJob, PendingJob, assignVars
<1>4. /\ MergeTypes /\ JobFits(j) /\ web[j].period \in Period /\ job[j].status = "absent"
      /\ inputs \in Seq(Certificate) /\ Makeable(inputs) /\ web[j] \in Request
      /\ \A c \in ToSet(inputs) \ overridden : assigned[c] = web[j].period
  <2>1. web[j].at = "selected" /\ web[j].at \in Early
    BY <1>3 DEF Early
  <2> QED
    BY <1>1, <2>1, OfJob DEF JobFits, RequestFits, PeriodFits
<1>5. /\ parts.part \in Nat \ {0} /\ parts.at \in Seq(1 .. MaxParts)
  <2>1. parts.part \in Nat \ {0} /\ parts.at \in Seq(1 .. parts.part)
    BY <1>2, <1>4, PartitionIsFit
  <2>2. parts.part <= MaxParts /\ MaxParts \in Nat
    BY <1>2, <1>4, MergeAssumption DEF Makeable
  <2>3. 1 .. parts.part \subseteq 1 .. MaxParts
    BY <2>1, <2>2
  <2> QED
    BY <2>1, <2>3, SeqMonotonic
<1>6. row \in JobRecord /\ row.status = "pending" /\ row.inputs = inputs
      /\ row.period = web[j].period /\ row.part = parts.at
  BY <1>4, <1>5 DEF JobRecord, Blocking
<1>7. out \in Parts /\ Len(out) = parts.part
  BY <1>5 DEF Parts
<1>8. web' = [web EXCEPT ![j] = q]
  <2>1. [web EXCEPT ![j].at = "inserted", ![j].plan = <<>>] = [web EXCEPT ![j] = q]
    BY <1>4, RequestIs
  <2> QED
    BY <1>3, <2>1
<1>9. q \in Request /\ q.at = "inserted"
  <2> DEFINE plans == Seq(Certificate) \union Assigning
  <2>1. <<>> \in plans
    OBVIOUS
  <2>2. Request = [at : {"idle", "checked", "resolved", "assigned", "overriding",
                         "selected", "inserted", "accepted", "failing", "done"},
                   period : Period \union {NoPeriod}, plan : plans]
    BY DEF Request
  <2> HIDE DEF plans
  <2> QED
    BY <1>4, <2>1, <2>2
<1> HIDE DEF row, out, q
<1>10. /\ job'[j] = row /\ \A k \in Job \ {j} : job'[k] = job[k]
       /\ output'[j] = out /\ \A k \in Job \ {j} : output'[k] = output[k]
       /\ web'[j] = q /\ \A k \in Job \ {j} : web'[k] = web[k]
  BY <1>3, <1>4, <1>8 DEF MergeTypes
<1>11. MergeTypes'
  <2>1. /\ job' \in [Job -> JobRecord] /\ output' \in [Job -> Parts]
        /\ web' \in [Job -> Request]
    BY <1>3, <1>4, <1>6, <1>7, <1>8, <1>9 DEF MergeTypes
  <2> QED
    BY <1>3, <1>4, <2>1 DEF MergeTypes
<1>12. Steady /\ Others(j)
  BY <1>3, <1>10 DEF Steady, Others
<1>13. ~ Ready(j) /\ job[j].status # "succeeded"
  BY <1>4 DEF JobFits, RowFits, Ready
<1>14. JobFits(j)'
  <2>1. RowFits(j)'
    BY <1>2, <1>4, <1>6, <1>7, <1>9, <1>10 DEF RowFits, Early
  <2>2. RequestFits(j)'
    BY <1>3, <1>4, <1>9, <1>10 DEF JobFits, RowFits, RequestFits
  <2>3. ReadyFits(j)'
    BY <1>3, <1>4, <1>6, <1>10 DEF JobFits, RowFits, ReadyFits
  <2>4. PeriodFits(j)'
    BY <1>3, <1>4, <1>6, <1>9, <1>10 DEF PeriodFits
  <2> QED
    BY <2>1, <2>2, <2>3, <2>4 DEF JobFits
<1> QED
  BY <1>3, <1>11, <1>12, <1>13, <1>14, OneJobMoves

-----------------------------------------------------------------------------
(* A request submits its job to AWS Batch, and records what came of it.    *)
LEMMA SubmitKeeps ==
  ASSUME MergeInv, NEW j \in Job, SubmitJob(j)
  PROVE  MergeInv'
<1>1. PICK at \in {"accepted", "failing"} :
        /\ web[j].at = "inserted" /\ aws' = [aws EXCEPT ![j] = "submitted"]
        /\ web' = [web EXCEPT ![j].at = at]
        /\ UNCHANGED <<rowVars, assignVars, worker, view>>
  BY DEF SubmitJob, Step
<1> DEFINE q == [at |-> at, period |-> web[j].period, plan |-> web[j].plan]
<1>2. /\ MergeTypes /\ JobFits(j) /\ web[j] \in Request /\ q \in Request
      /\ job[j].status \in {"failed"} \union Blocking /\ worker[j] \in Working
  BY <1>1, OfJob DEF Request, Early
<1>3. web' = [web EXCEPT ![j] = q]
  <2>1. [web EXCEPT ![j].at = at] = [web EXCEPT ![j] = q]
    BY <1>2, RequestIs
  <2> QED
    BY <1>1, <2>1
<1>4. /\ job[j].status # "absent" /\ q.at = at /\ at \notin Early
      /\ "submitted" \in Said /\ view \in [Viewer -> View]
      /\ j \in known => job[j].status # "pending"
      /\ job[j].status = "succeeded" \/ worker[j] = "merged" => Ready(j)
  BY <1>1, <1>2, OfJob DEF JobFits, RequestFits, ReadyFits, Said, MergeTypes, Early
<1>5. /\ job' = [job EXCEPT ![j].status = job[j].status]
      /\ worker' = [worker EXCEPT ![j] = worker[j]] /\ known' = known /\ view' = view
      /\ UNCHANGED <<output, assignVars>>
  BY <1>1, <1>2, Stays DEF rowVars
<1>6. q.at = "accepted" => "submitted" # "none"
  OBVIOUS
<1> HIDE DEF q
<1>7. Moves(j, job[j].status, q, "submitted", worker[j])
  BY <1>1, <1>2, <1>3, <1>4, <1>5, <1>6 DEF Moves
<1> QED
  BY <1>7, JobMoves

(* It records the id of AWS Batch, or that the job failed.                 *)
LEMMA RecordKeeps ==
  ASSUME MergeInv, NEW j \in Job, RecordSubmitted(j) \/ RecordFailure(j)
  PROVE  MergeInv'
<1> DEFINE done == [IdleRequest EXCEPT !.at = "done"]
           failing == [at |-> "failing", period |-> web[j].period, plan |-> web[j].plan]
<1>1. /\ MergeTypes /\ JobFits(j) /\ web[j] \in Request /\ failing \in Request
      /\ aws[j] \in Said /\ worker[j] \in Working /\ web[j].at \in {"accepted", "failing"}
      /\ job[j].status # "absent"
  BY OfJob DEF Request, Early, RecordSubmitted, RecordFailure
<1>2. /\ aws' = [aws EXCEPT ![j] = aws[j]] /\ worker' = [worker EXCEPT ![j] = worker[j]]
      /\ view' = view /\ view' \in [Viewer -> View] /\ UNCHANGED <<output, assignVars>>
  BY <1>1, Stays DEF RecordSubmitted, RecordFailure, MergeTypes
<1>3. /\ worker[j] = "merged" \/ aws[j] = "succeeded" => Ready(j)
      /\ j \in known => aws[j] # "none"
      /\ web[j].at = "accepted" => aws[j] # "none"
  BY <1>1 DEF JobFits, ReadyFits, RequestFits
<1>4. PICK q \in {done, failing} : web' = [web EXCEPT ![j] = q]
  <2>1. [web EXCEPT ![j].at = "failing"] = [web EXCEPT ![j] = failing]
    BY <1>1, RequestIs
  <2>2. web' = [web EXCEPT ![j] = done] \/ web' = [web EXCEPT ![j].at = "failing"]
    BY DEF RecordSubmitted, RecordFailure, Finished, Step
  <2> HIDE DEF done, failing
  <2> QED
    BY <2>1, <2>2
<1>5. q \in Request /\ q.at \in {"done", "failing"} /\ q.at \notin Early
  <2>1. failing.at = "failing"
    OBVIOUS
  <2>2. done \in Request /\ done.at = "done"
    BY IdleIsRequest
  <2>3. "done" \notin Early /\ "failing" \notin Early
    BY DEF Early
  <2> HIDE DEF done, failing
  <2> QED
    BY <1>1, <2>1, <2>2, <2>3
<1> HIDE DEF done, failing
<1>6. CASE RecordSubmitted(j)
  <2>1. /\ job' = [job EXCEPT ![j].status = "submitted"] /\ known' = known \union {j}
        /\ web[j].at = "accepted"
    BY <1>6 DEF RecordSubmitted
  <2>2. "submitted" \in {"failed"} \union Blocking /\ aws[j] # "none"
    BY <1>3, <2>1 DEF Blocking
  <2>3. Moves(j, "submitted", q, aws[j], worker[j])
    BY <1>1, <1>2, <1>3, <1>4, <1>5, <2>1, <2>2 DEF Moves
  <2> QED
    BY <2>3, JobMoves
<1>7. CASE RecordFailure(j)
  <2>1. job' = [job EXCEPT ![j].status = "failed"] /\ known' = known
    BY <1>7 DEF RecordFailure
  <2>2. Moves(j, "failed", q, aws[j], worker[j])
    BY <1>1, <1>2, <1>3, <1>4, <1>5, <2>1 DEF Moves
  <2> QED
    BY <2>2, JobMoves
<1> QED
  BY <1>6, <1>7

(* The container starts, ends or is killed.                                *)
LEMMA ContainerKeeps ==
  ASSUME MergeInv, NEW j \in Job,
         StartContainer(j) \/ ContainerEnds(j) \/ ContainerKilled(j)
  PROVE  MergeInv'
<1>1. /\ MergeTypes /\ JobFits(j) /\ web[j] \in Request /\ job[j].status # "absent"
      /\ job[j].status \in {"failed"} \union Blocking /\ web[j].at \notin Early
  <2>1. aws[j] # "none" \/ worker[j] # "off"
    BY DEF StartContainer, ContainerEnds, ContainerKilled
  <2> QED
    BY <2>1, OfJob
<1>2. PICK a \in Said, w \in Working :
        /\ aws' = [aws EXCEPT ![j] = a] /\ worker' = [worker EXCEPT ![j] = w]
        /\ a # "none" /\ w # "merged" /\ (a = "succeeded" => worker[j] = "merged")
  BY DEF StartContainer, ContainerEnds, ContainerKilled, Work, Said, Working, Ended
<1>3. /\ job' = [job EXCEPT ![j].status = job[j].status] /\ web' = [web EXCEPT ![j] = web[j]]
      /\ known' = known /\ view' = view /\ view' \in [Viewer -> View]
      /\ UNCHANGED <<output, assignVars>>
  <2>1. UNCHANGED <<rowVars, assignVars, web, view>>
    BY DEF StartContainer, ContainerEnds, ContainerKilled
  <2> QED
    BY <1>1, <2>1, Stays DEF rowVars, MergeTypes
<1>4. /\ job[j].status = "succeeded" \/ worker[j] = "merged" => Ready(j)
      /\ j \in known => job[j].status # "pending"
  BY <1>1 DEF JobFits, ReadyFits, RequestFits
<1>5. Moves(j, job[j].status, web[j], a, w)
  BY <1>1, <1>2, <1>3, <1>4 DEF Moves
<1> QED
  BY <1>5, JobMoves

(* The worker writes the status of its job, or fails to.                   *)
LEMMA WorkerKeeps ==
  ASSUME MergeInv, NEW j \in Job,
         MarkRunning(j) \/ PersistPartitions(j) \/ MarkSucceeded(j) \/ WorkerThrows(j)
           \/ MarkFailed(j)
  PROVE  MergeInv'
<1>1. /\ MergeTypes /\ JobFits(j) /\ web[j] \in Request /\ job[j].status # "absent"
      /\ job[j].status \in {"failed"} \union Blocking /\ web[j].at \notin Early
      /\ aws[j] \in Said /\ job[j] \in JobRecord /\ job \in [Job -> JobRecord]
  <2>1. worker[j] # "off"
    BY DEF MarkRunning, PersistPartitions, MarkSucceeded, WorkerThrows, MarkFailed
  <2> QED
    BY <2>1, OfJob DEF MergeTypes
<1>2. /\ aws' = [aws EXCEPT ![j] = aws[j]] /\ web' = [web EXCEPT ![j] = web[j]]
      /\ known' = known /\ view' = view /\ view' \in [Viewer -> View]
      /\ UNCHANGED <<output, assignVars>>
  <2>1. UNCHANGED <<output, known, assignVars, web, aws, view>>
    BY DEF MarkRunning, PersistPartitions, MarkSucceeded, WorkerThrows, MarkFailed, rowVars
  <2> QED
    BY <1>1, <2>1, Stays DEF MergeTypes
<1>3. /\ job[j].status = "succeeded" \/ aws[j] = "succeeded" => Ready(j)
      /\ web[j].at = "accepted" => aws[j] # "none"
      /\ j \in known => job[j].status # "pending" /\ aws[j] # "none"
      /\ job[j].part = Partition(job[j].inputs).at
  BY <1>1 DEF JobFits, RowFits, ReadyFits, RequestFits
<1>4. job = [job EXCEPT ![j].status = job[j].status]
  BY <1>1, Stays
<1>5. CASE MarkSucceeded(j)
  <2>1. PICK w \in {"merged", "erring"} : worker' = [worker EXCEPT ![j] = w]
    BY <1>5 DEF MarkSucceeded, Work
  <2>2. Ready(j)
    <3>1. Current(j) = 0 /\ output[j] \in Parts
      BY <1>5, OfJob DEF MarkSucceeded
    <3> QED
      BY <1>1, <3>1, CurrentIs, HasParts DEF Ready
  <2>3. /\ job' = [job EXCEPT ![j].status = "succeeded"] /\ w \in Working
        /\ "succeeded" \in {"failed"} \union Blocking
    BY <1>5, <2>1 DEF MarkSucceeded, Working, Blocking
  <2>4. Moves(j, "succeeded", web[j], aws[j], w)
    BY <1>1, <1>2, <1>3, <2>1, <2>2, <2>3 DEF Moves
  <2> QED
    BY <2>4, JobMoves
<1>6. CASE MarkRunning(j) \/ PersistPartitions(j) \/ WorkerThrows(j) \/ MarkFailed(j)
  <2>1. PICK w \in Working : worker' = [worker EXCEPT ![j] = w] /\ w # "merged"
    BY <1>6 DEF MarkRunning, PersistPartitions, WorkerThrows, MarkFailed, Work, Working
  <2>2. PICK s \in {"failed", "running", job[j].status} :
          job' = [job EXCEPT ![j].status = s]
    <3>1. CASE PersistPartitions(j)
      <4>1. job' = [job EXCEPT ![j].part = job[j].part]
        BY <1>3, <3>1 DEF PersistPartitions
      <4>2. job[j] = [job[j] EXCEPT !.part = job[j].part]
        BY <1>1 DEF JobRecord
      <4>3. job' = [job EXCEPT ![j] = [job[j] EXCEPT !.part = job[j].part]]
        BY <1>1, <4>1
      <4>4. job' = job
        BY <1>1, <4>2, <4>3
      <4> QED
        BY <1>4, <4>4
    <3>2. CASE WorkerThrows(j)
      BY <1>4, <3>2 DEF WorkerThrows, rowVars
    <3>3. CASE MarkRunning(j) \/ MarkFailed(j)
      BY <1>4, <3>3 DEF MarkRunning, MarkFailed
    <3> QED
      BY <1>6, <3>1, <3>2, <3>3
  <2>3. /\ s \in {"failed"} \union Blocking
        /\ s = "succeeded" => job[j].status = "succeeded"
        /\ s = "pending" => job[j].status = "pending"
    BY <1>1 DEF Blocking
  <2>4. Moves(j, s, web[j], aws[j], w)
    BY <1>1, <1>2, <1>3, <2>1, <2>2, <2>3 DEF Moves
  <2> QED
    BY <2>4, JobMoves
<1> QED
  BY <1>5, <1>6

(* The worker begins or finishes a part, or marks as failed what is left.  *)
LEMMA PartsKeep ==
  ASSUME MergeInv, NEW j \in Job, BeginPart(j) \/ FinishPart(j) \/ MarkOutputsFailed(j)
  PROVE  MergeInv'
<1>1. /\ MergeTypes /\ JobFits(j) /\ job[j].status # "absent" /\ output[j] \in Parts
      /\ worker[j] \in {"merging", "erring"} /\ output \in [Job -> Parts]
  <2>1. worker[j] \in {"merging", "erring"}
    BY DEF BeginPart, FinishPart, MarkOutputsFailed
  <2> QED
    BY <2>1, OfJob DEF MergeTypes
<1>2. /\ UNCHANGED <<job, known, assignVars, web, aws, view>>
  BY DEF BeginPart, FinishPart, MarkOutputsFailed
<1>3. worker = [worker EXCEPT ![j] = worker[j]]
  BY <1>1, Stays
<1>4. CASE BeginPart(j) \/ FinishPart(j)
  <2>1. PICK n : n = Current(j)
    OBVIOUS
  <2>2. PICK s \in {"processing", "ready"} :
          /\ n # 0 /\ output' = [output EXCEPT ![j][n] = s]
          /\ worker' = worker /\ worker[j] = "merging"
    <3>1. CASE BeginPart(j)
      BY <2>1, <3>1 DEF BeginPart
    <3>2. CASE FinishPart(j)
      BY <2>1, <3>2 DEF FinishPart
    <3> QED
      BY <1>4, <3>1, <3>2
  <2>3. n \in DOMAIN output[j] /\ output[j][n] # "ready"
    BY <1>1, <2>1, <2>2, CurrentIs
  <2> DEFINE out == [output[j] EXCEPT ![n] = s]
  <2>4. out \in Parts /\ Len(out) = Len(output[j])
    BY <1>1, <2>3 DEF Parts
  <2>5. output' = [output EXCEPT ![j] = out]
    BY <1>1, <2>2
  <2>6. ~ Ready(j)
    BY <2>3 DEF Ready
  <2> HIDE DEF out
  <2>7. worker' = [worker EXCEPT ![j] = "merging"] /\ "merging" \in Working \ {"merged"}
    BY <1>3, <2>2 DEF Working
  <2> QED
    BY <1>1, <1>2, <2>4, <2>5, <2>6, <2>7, PartsMove
<1>5. CASE MarkOutputsFailed(j)
  <2> DEFINE out == [p \in DOMAIN output[j] |->
                       IF output[j][p] = "ready" THEN "ready" ELSE "failed"]
  <2>1. /\ output' = output \/ output' = [output EXCEPT ![j] = out]
        /\ worker' = [worker EXCEPT ![j] = "failing"] /\ worker[j] = "erring"
    BY <1>1, <1>5 DEF MarkOutputsFailed, Work
  <2>2. out \in Parts /\ Len(out) = Len(output[j])
    BY <1>1 DEF Parts
  <2>3. Ready(j) => out = output[j]
    BY <1>1 DEF Ready, Parts
  <2> HIDE DEF out
  <2>4. "failing" \in Working \ {"merged"}
    BY DEF Working
  <2>5. output = [output EXCEPT ![j] = output[j]]
    BY <1>1
  <2>6. CASE Ready(j)
    <3>1. output' = output
      BY <2>1, <2>3, <2>5, <2>6
    <3>2. /\ web[j] \in Request /\ aws[j] \in Said /\ web[j].at \notin Early
          /\ job[j].status \in {"failed"} \union Blocking
          /\ web[j].at = "accepted" => aws[j] # "none"
          /\ j \in known => job[j].status # "pending" /\ aws[j] # "none"
      BY <1>1, OfJob DEF JobFits, RequestFits
    <3>3. /\ job' = [job EXCEPT ![j].status = job[j].status]
          /\ web' = [web EXCEPT ![j] = web[j]] /\ aws' = [aws EXCEPT ![j] = aws[j]]
          /\ known' = known /\ view' = view /\ view' \in [Viewer -> View]
      BY <1>1, <1>2, Stays DEF MergeTypes
    <3>4. UNCHANGED <<output, assignVars>>
      BY <1>2, <3>1
    <3>5. Moves(j, job[j].status, web[j], aws[j], "failing")
      BY <1>1, <2>1, <2>4, <2>6, <3>2, <3>3, <3>4 DEF Moves
    <3> QED
      BY <3>5, JobMoves
  <2>7. CASE ~ Ready(j)
    <3>1. PICK o \in {out, output[j]} : output' = [output EXCEPT ![j] = o]
      BY <2>1, <2>5
    <3> QED
      BY <1>1, <1>2, <2>1, <2>2, <2>4, <2>7, <3>1, PartsMove
  <2> QED
    BY <2>6, <2>7
<1> QED
  BY <1>4, <1>5

(* A certificate is accepted: no job is about it yet.                      *)
LEMMA AcceptKeeps ==
  ASSUME MergeInv, NEW c \in Certificate, AcceptCertificate(c)
  PROVE  MergeInv'
<1>1. /\ job' = job /\ output' = output /\ known' = known /\ aws' = aws /\ worker' = worker
      /\ web' = web /\ assigned' = assigned /\ overridden' = overridden /\ view' = view
      /\ accepted' = accepted \union {c}
  BY DEF AcceptCertificate, rowVars
<1>2. MergeTypes'
  BY <1>1 DEF MergeInv, MergeTypes
<1>3. \A j \in Job : JobFits(j)'
  BY <1>1 DEF MergeInv, JobFits, RowFits, RequestFits, ReadyFits, Ready, PeriodFits
<1>4. \A v \in Viewer : ViewFits(v)'
  BY <1>1 DEF MergeInv, ViewFits, Ready
<1> QED
  BY <1>2, <1>3, <1>4 DEF MergeInv

(* One viewer reads or asks, and nothing else changes.                     *)
LEMMA LookKeeps ==
  ASSUME MergeInv, NEW v \in Viewer, NEW seen \in View,
         UNCHANGED <<rowVars, assignVars, web, aws, worker>>,
         view' = [view EXCEPT ![v] = seen],
         seen.on \in known, seen.on # NoJob, seen.next = "succeeded" => Ready(seen.on)
  PROVE  MergeInv'
<1>1. /\ job' = job /\ output' = output /\ known' = known /\ aws' = aws /\ worker' = worker
      /\ web' = web /\ accepted' = accepted /\ assigned' = assigned
      /\ overridden' = overridden /\ MergeTypes
  BY DEF rowVars, assignVars, MergeInv
<1>2. MergeTypes'
  BY <1>1 DEF MergeTypes
<1>3. \A k \in Job : JobFits(k)'
  BY <1>1 DEF MergeInv, JobFits, RowFits, RequestFits, ReadyFits, Ready, PeriodFits
<1>4. ASSUME NEW u \in Viewer
      PROVE  ViewFits(u)'
  <2>1. CASE u = v
    <3>1. view'[u] = seen
      BY <1>1, <2>1 DEF MergeTypes
    <3> QED
      BY <1>1, <3>1 DEF ViewFits, Ready
  <2>2. CASE u # v
    <3>1. view'[u] = view[u] /\ ViewFits(u)
      BY <1>1, <2>2 DEF MergeTypes, MergeInv
    <3> QED
      BY <1>1, <3>1 DEF ViewFits, Ready
  <2> QED
    BY <2>1, <2>2
<1>5. \A u \in Viewer : ViewFits(u)'
  BY <1>4
<1> QED
  BY <1>2, <1>3, <1>5 DEF MergeInv

(* A viewer reads a job.                                                   *)
LEMMA ViewKeeps ==
  ASSUME MergeInv, NEW v \in Viewer, NEW j \in Job, ViewJob(v, j)
  PROVE  MergeInv'
<1> DEFINE seen == [on |-> j, saw |-> job[j].status, next |-> "none"]
<1>1. /\ view' = [view EXCEPT ![v] = seen] /\ j \in known /\ job[j].status \notin Ended
      /\ UNCHANGED <<rowVars, assignVars, web, aws, worker>>
  BY DEF ViewJob
<1>2. job[j].status \in {"submitted", "running"}
  BY <1>1, OfJob DEF JobFits, RequestFits, ReadyFits, Blocking, Ended
<1>3. seen \in View /\ seen.on = j /\ seen.next = "none"
  BY <1>2 DEF View, Said
<1>4. seen.on # NoJob
  BY <1>1, <1>3, MergeAssumption
<1> HIDE DEF seen
<1> QED
  BY <1>1, <1>3, <1>4, LookKeeps

(* It asks AWS Batch.                                                      *)
LEMMA DescribeKeeps ==
  ASSUME MergeInv, NEW v \in Viewer, DescribeJob(v)
  PROVE  MergeInv'
<1>1. PICK j : j = view[v].on
  OBVIOUS
<1> DEFINE seen == [view[v] EXCEPT !.next = aws[j]]
<1>2. /\ MergeTypes /\ view[v] \in View /\ ViewFits(v)
  BY DEF MergeInv, MergeTypes
<1>3. /\ j # NoJob /\ j \in Job /\ j \in known
      /\ view' = [view EXCEPT ![v] = seen]
      /\ UNCHANGED <<rowVars, assignVars, web, aws, worker>>
  BY <1>1, <1>2 DEF DescribeJob, ViewFits, View, MergeTypes
<1>4. aws[j] \in Said /\ (aws[j] = "succeeded" => Ready(j))
  BY <1>3, OfJob DEF JobFits, ReadyFits
<1>5. seen \in View /\ seen.on = j /\ seen.next = aws[j]
  BY <1>1, <1>2, <1>4 DEF View
<1> HIDE DEF seen
<1> QED
  BY <1>3, <1>4, <1>5, LookKeeps

(* A viewer writes the status it was told.                                 *)
LEMMA SyncKeeps ==
  ASSUME MergeInv, NEW v \in Viewer, SyncStatus(v)
  PROVE  MergeInv'
<1>1. PICK j : j = view[v].on
  OBVIOUS
<1>2. PICK s : s = SyncedStatus(v)
  OBVIOUS
<1>3. MergeTypes /\ view[v] \in View /\ ViewFits(v)
  BY DEF MergeInv, MergeTypes
<1>4. /\ j # NoJob /\ j \in Job /\ j \in known /\ s \in {"submitted", "running"} \union Ended
      /\ s = "succeeded" => Ready(j)
  <2>1. view[v].on # NoJob
    BY <1>3 DEF SyncStatus, ViewFits
  <2> QED
    BY <1>1, <1>2, <1>3, <2>1 DEF SyncStatus, ViewFits, View, Said, SyncedStatus, Ended
<1>5. /\ job' = [job EXCEPT ![j].status = s] /\ view' = [view EXCEPT ![v] = IdleView]
      /\ UNCHANGED <<output, known, assignVars, web, aws, worker>>
  BY <1>1, <1>2 DEF SyncStatus
<1>6. /\ JobFits(j) /\ job[j].status # "absent" /\ web[j] \in Request /\ aws[j] \in Said
      /\ worker[j] \in Working /\ web[j].at \notin Early
  BY <1>4, OfJob
<1>7. /\ web[j].at = "accepted" => aws[j] # "none"
      /\ aws[j] # "none" /\ s # "pending" /\ s \in {"failed"} \union Blocking
      /\ worker[j] = "merged" \/ aws[j] = "succeeded" => Ready(j)
  BY <1>4, <1>6 DEF JobFits, RequestFits, ReadyFits, Blocking, Ended
<1>8. /\ view' \in [Viewer -> View]
      /\ \A u \in Viewer : view'[u] = view[u] \/ view'[u] = IdleView
  <2>1. IdleView \in View
    BY DEF IdleView, View, Said
  <2> QED
    BY <1>3, <1>5, <2>1 DEF MergeTypes
<1>9. /\ web' = [web EXCEPT ![j] = web[j]] /\ aws' = [aws EXCEPT ![j] = aws[j]]
      /\ worker' = [worker EXCEPT ![j] = worker[j]] /\ known' = known
      /\ UNCHANGED <<output, assignVars>>
  BY <1>3, <1>4, <1>5, Stays
<1>10. Moves(j, s, web[j], aws[j], worker[j])
  BY <1>4, <1>5, <1>6, <1>7, <1>8, <1>9 DEF Moves
<1> QED
  BY <1>4, <1>10, JobMoves

(* Nothing happens.                                                        *)
LEMMA MergeStutters == MergeInv /\ UNCHANGED mergeVars => MergeInv'
<1> SUFFICES ASSUME MergeInv, UNCHANGED mergeVars
             PROVE  MergeInv'
  OBVIOUS
<1>1. /\ job' = job /\ output' = output /\ known' = known /\ aws' = aws /\ worker' = worker
      /\ web' = web /\ accepted' = accepted /\ assigned' = assigned
      /\ overridden' = overridden /\ view' = view
  BY DEF mergeVars, rowVars, assignVars
<1>2. MergeTypes'
  BY <1>1 DEF MergeInv, MergeTypes
<1>3. \A j \in Job : JobFits(j)'
  BY <1>1 DEF MergeInv, JobFits, RowFits, RequestFits, ReadyFits, Ready, PeriodFits
<1>4. \A v \in Viewer : ViewFits(v)'
  BY <1>1 DEF MergeInv, ViewFits, Ready
<1> QED
  BY <1>2, <1>3, <1>4 DEF MergeInv

(* Every step of a request, a worker or a viewer keeps the invariant.      *)
LEMMA MergeStep == MergeInv /\ [MergeNext]_mergeVars => MergeInv'
<1> SUFFICES ASSUME MergeInv, [MergeNext]_mergeVars
             PROVE  MergeInv'
  OBVIOUS
<1>1. ASSUME NEW j \in Job, Create(j)
      PROVE  MergeInv'
  BY <1>1, CheckKeeps, ResolveKeeps, InsertAssignmentsKeeps, OverrideKeeps, SelectKeeps,
     InsertJobKeeps, SubmitKeeps, StopKeeps, RecordKeeps DEF Create
<1>2. ASSUME NEW j \in Job, RecordFailure(j) \/ RequestStops(j)
      PROVE  MergeInv'
  BY <1>2, RecordKeeps, StopKeeps
<1>3. ASSUME NEW j \in Job, Merge(j)
      PROVE  MergeInv'
  BY <1>3, ContainerKeeps, WorkerKeeps, PartsKeep DEF Merge
<1>4. ASSUME NEW c \in Certificate, AcceptCertificate(c)
      PROVE  MergeInv'
  BY <1>4, AcceptKeeps
<1>5. ASSUME NEW v \in Viewer, (\E j \in Job : ViewJob(v, j)) \/ DescribeJob(v) \/ SyncStatus(v)
      PROVE  MergeInv'
  BY <1>5, ViewKeeps, DescribeKeeps, SyncKeeps
<1>6. CASE UNCHANGED mergeVars
  BY <1>6, MergeStutters
<1> QED
  BY <1>1, <1>2, <1>3, <1>4, <1>5, <1>6 DEF MergeNext

(* The invariant holds in every state of every behaviour.                  *)
THEOREM MergeInvariant == MergeSpec => []MergeInv
<1>1. MergeInit => MergeInv
  BY MergeInitially
<1>2. MergeInv /\ [MergeNext]_mergeVars => MergeInv'
  BY MergeStep
<1> QED
  BY <1>1, <1>2, PTL DEF MergeSpec

(* Every row, request and view keeps its type.                             *)
THEOREM MergeTypesAlways == MergeSpec => []MergeTypeOK
<1>1. MergeInv => MergeTypeOK
  BY MergeHolds
<1> QED
  BY <1>1, MergeInvariant, PTL

(* A job that is shown as succeeded has all its parts ready to download,   *)
(* whichever of the worker and the viewers wrote its status last, and      *)
(* whatever failed before: certificate-merge-server.ts, app.ts.            *)
THEOREM SucceededIsCompleteAlways == MergeSpec => []SucceededIsComplete
<1>1. MergeInv => SucceededIsComplete
  BY MergeHolds
<1> QED
  BY <1>1, MergeInvariant, PTL

(* The first-fit partition gives any inputs parts within the limit, each   *)
(* begun only by an input that did not fit before, and every job has one   *)
(* output for each of its parts: certificate-merge.ts.                     *)
THEOREM PartsFitAlways == MergeSpec => []PartsFit
<1>1. MergeInv => PartsFit
  BY MergeHolds
<1> QED
  BY <1>1, MergeInvariant, PTL

(* A certificate that no user moved is in packages of one period only.     *)
THEOREM MergedInOnePeriodAlways == MergeSpec => []MergedInOnePeriod
<1>1. MergeInv => MergedInOnePeriod
  BY MergeHolds
<1> QED
  BY <1>1, MergeInvariant, PTL
=============================================================================
