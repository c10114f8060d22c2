---------------------------- MODULE DataDirProofs ---------------------------
(***************************************************************************)
(* Proofs about what a runtime reads from its data directory: Pipelines    *)
(* (phase checkpoints and topologies), for every set of topologies and any *)
(* number of resumptions, and then Skills and Startup (the skills          *)
(* directory and what a request is granted), for every set of hosts, skill *)
(* files and installers.                                                   *)
(***************************************************************************)
EXTENDS Pipelines, Startup, WellFoundedInduction, NaturalsInduction, SequenceTheorems, FiniteSetTheorems, TLAPS

Row  == [status : Statuses, output : Nat, attempt : Nat]
Work == {"idle", "running", "completed", "failed"}

-----------------------------------------------------------------------------
(* The groups of a topology.                                               *)

Together(t, j, i) == \A k \in j..i : t[k].group = t[i].group /\ t[k].group # NoGroup

(* The groups of the first n phases: every phase is in one, the phases of  *)
(* a group are in order and come before those of the next, what shares a   *)
(* group shares its name with everything between, and neighbours that      *)
(* could share one do.                                                     *)
Placed(t, groups, n) ==
  /\ groups \in Seq(Seq(1..n))
  /\ \A a \in DOMAIN groups : groups[a] # << >>
  /\ \A i \in 1..n : \E a \in DOMAIN groups : i \in Range(groups[a])
  /\ \A a, b \in DOMAIN groups : a < b =>
       \A i \in Range(groups[a]), j \in Range(groups[b]) : i < j
  /\ \A a \in DOMAIN groups : \A i, j \in Range(groups[a]) : j < i => Together(t, j, i)
  /\ \A a \in DOMAIN groups : \A k, l \in DOMAIN groups[a] : k < l => groups[a][k] < groups[a][l]
  /\ \A i \in 1..n : i < n /\ Together(t, i, i + 1) =>
       \E a \in DOMAIN groups : {i, i + 1} \subseteq Range(groups[a])
  /\ n > 0 => groups # << >> /\ n \in Range(groups[Len(groups)])

LEMMA NothingPlaced == ASSUME NEW t PROVE Placed(t, << >>, 0)
  BY DEF Placed

LEMMA RangeOfAppend ==
  ASSUME NEW S, NEW s \in Seq(S), NEW x
  PROVE  Range(Append(s, x)) = Range(s) \cup {x}
<1>1. DOMAIN Append(s, x) = 1..(Len(s) + 1) /\ DOMAIN s = 1..Len(s) /\ Len(s) \in Nat
  OBVIOUS
<1>2. Append(s, x)[Len(s) + 1] = x /\ \A k \in 1..Len(s) : Append(s, x)[k] = s[k]
  OBVIOUS
<1>3. \A k \in 1..(Len(s) + 1) : k \in 1..Len(s) \/ k = Len(s) + 1
  BY <1>1
<1>4. 1..Len(s) \subseteq 1..(Len(s) + 1) /\ Len(s) + 1 \in 1..(Len(s) + 1)
  BY <1>1
<1> QED
  BY <1>1, <1>2, <1>3, <1>4 DEF Range

(* A phase that joins the last group.                                      *)
LEMMA JoiningPlaces ==
  ASSUME NEW t, NEW n \in Nat, NEW groups, Placed(t, groups, n), Joins(t, groups, n + 1)
  PROVE  Placed(t, [groups EXCEPT ![Len(groups)] = Append(@, n + 1)], n + 1)
<1> DEFINE last == Len(groups)
           new == [groups EXCEPT ![last] = Append(@, n + 1)]
<1>1. groups \in Seq(Seq(1..n)) /\ groups # << >>
  BY DEF Placed, Joins
<1>2. last \in Nat \ {0} /\ last \in DOMAIN groups /\ DOMAIN groups = 1..last
  BY <1>1
<1>3. groups[last] \in Seq(1..n) /\ groups[last] # << >>
  <2>1. groups[last] \in Seq(1..n)
    BY <1>1, <1>2
  <2>2. groups[last] # << >>
    BY <1>2 DEF Placed
  <2> QED
    BY <2>1, <2>2
<1>4. DOMAIN new = DOMAIN groups /\ Len(new) = last
  <2>1. groups = [a \in 1..last |-> groups[a]]
    BY <1>1, <1>2
  <2>2. DOMAIN new = 1..last
    BY <1>2
  <2> HIDE DEF new
  <2> QED
    BY <1>2, <2>2
<1>5. new[last] = Append(groups[last], n + 1) /\ \A a \in DOMAIN groups : a # last => new[a] = groups[a]
  BY <1>1, <1>2
<1>6. Range(new[last]) = Range(groups[last]) \cup {n + 1}
  BY <1>3, <1>5, RangeOfAppend
<1>7. new = [a \in 1..last |-> new[a]] /\ new[last] # << >>
  <2>1. PICK s : s = groups[last]
    OBVIOUS
  <2>2. Append(s, n + 1) # << >>
    <3>1. s \in Seq(1..n)
      BY <1>3, <2>1
    <3>2. Len(Append(s, n + 1)) = Len(s) + 1 /\ Len(s) \in Nat
      BY <3>1
    <3> QED
      BY <3>2
  <2>3. new[last] # << >>
    BY <1>5, <2>1, <2>2
  <2>4. new = [a \in 1..last |-> new[a]]
    <3>1. new = [a \in DOMAIN groups |-> IF a = last THEN Append(groups[last], n + 1) ELSE groups[a]]
      OBVIOUS
    <3> QED
      BY <1>2, <3>1, Zenon
  <2> QED
    BY <2>3, <2>4
<1> HIDE DEF new
<1>8. \A a \in DOMAIN groups : Range(groups[a]) \subseteq 1..n
  BY <1>1 DEF Range
<1>9. ASSUME NEW i \in Range(groups[last]) PROVE Together(t, i, n + 1)
  <2>1. n \in Nat \ {0} /\ n \in Range(groups[last])
    <3>1. i \in 1..n
      BY <1>2, <1>8
    <3> QED
      BY <3>1 DEF Placed
  <2>2. PICK f : f = groups[last][1]
    OBVIOUS
  <2>3. f \in Range(groups[last]) /\ f \in 1..n
    BY <1>2, <1>3, <1>8, <2>2 DEF Range
  <2>4. t[f].group = t[n + 1].group /\ t[n + 1].group # NoGroup
    BY <2>2 DEF Joins
  <2>5. ASSUME NEW k \in Range(groups[last]), k < n PROVE Together(t, k, n)
    BY <1>2, <2>1, <2>5 DEF Placed
  <2>6. t[n].group = t[n + 1].group
    <3>1. CASE f = n
      BY <2>4, <3>1
    <3>2. CASE f < n
      <4>1. Together(t, f, n) /\ f \in f..n
        BY <2>3, <2>5, <3>2
      <4> QED
        BY <2>4, <4>1 DEF Together
    <3> QED
      BY <2>3, <3>1, <3>2
  <2>7. i \in 1..n
    BY <1>2, <1>8
  <2>8. ASSUME NEW k \in i..(n + 1) PROVE t[k].group = t[n + 1].group
    <3>1. CASE k \in {n, n + 1}
      BY <2>6, <3>1
    <3>2. CASE k \in i..n /\ k # n
      <4>1. i < n
        BY <2>7, <3>2
      <4> QED
        BY <2>5, <2>6, <3>2, <4>1 DEF Together
    <3> QED
      BY <2>7, <3>1, <3>2
  <2> QED
    BY <2>4, <2>8 DEF Together
<1>10. new \in Seq(Seq(1..(n + 1)))
  <2>1. \A a \in 1..last : new[a] \in Seq(1..(n + 1))
    <3>1. ASSUME NEW s \in Seq(1..n) PROVE s \in Seq(1..(n + 1))
      <4>1. 1..n \subseteq 1..(n + 1)
        OBVIOUS
      <4> QED
        BY <4>1, SeqMonotonic
    <3>2. Append(groups[last], n + 1) \in Seq(1..(n + 1))
      BY <1>3, <3>1
    <3>3. ASSUME NEW a \in 1..last, a # last PROVE new[a] \in Seq(1..(n + 1))
      <4>1. groups[a] \in Seq(1..n)
        BY <1>1, <1>2
      <4> QED
        BY <1>2, <1>5, <3>1, <3>3, <4>1
    <3> QED
      BY <1>5, <3>2, <3>3
  <2> QED
    BY <1>2, <1>7, <2>1, SeqDef
<1>11. \A a \in DOMAIN new : new[a] # << >>
  BY <1>4, <1>5, <1>7 DEF Placed
<1>12. \A i \in 1..(n + 1) : \E a \in DOMAIN new : i \in Range(new[a])
  <2> SUFFICES ASSUME NEW i \in 1..(n + 1) PROVE \E a \in DOMAIN new : i \in Range(new[a])
    OBVIOUS
  <2>1. CASE i = n + 1
    BY <1>2, <1>4, <1>6, <2>1
  <2>2. CASE i \in 1..n
    <3>1. PICK a \in DOMAIN groups : i \in Range(groups[a])
      BY <2>2 DEF Placed
    <3>2. i \in Range(new[a])
      BY <1>5, <1>6, <3>1
    <3> QED
      BY <1>4, <3>1, <3>2
  <2> QED
    BY <2>1, <2>2
<1>13. ASSUME NEW a \in DOMAIN new, NEW b \in DOMAIN new, a < b,
              NEW i \in Range(new[a]), NEW j \in Range(new[b])
       PROVE  i < j
  <2>1. a # last /\ i \in Range(groups[a]) /\ i \in 1..n
    BY <1>2, <1>4, <1>5, <1>8, <1>13
  <2>2. CASE j = n + 1
    BY <2>1, <2>2
  <2>3. CASE j \in Range(groups[b])
    BY <1>4, <1>13, <2>1, <2>3 DEF Placed
  <2> QED
    BY <1>4, <1>5, <1>6, <2>2, <2>3
<1>14. ASSUME NEW a \in DOMAIN new, NEW i \in Range(new[a]), NEW j \in Range(new[a]), j < i
       PROVE  Together(t, j, i)
  <2>1. CASE i \in Range(groups[a]) /\ j \in Range(groups[a])
    BY <1>4, <1>14, <2>1 DEF Placed
  <2>2. CASE a = last /\ i = n + 1 /\ j \in Range(groups[last])
    BY <1>9, <2>2
  <2>3. CASE a = last /\ j = n + 1
    <3>1. i \in 1..n \/ i = n + 1
      BY <1>2, <1>6, <1>8, <2>3
    <3> QED
      BY <1>14, <2>3, <3>1
  <2> QED
    BY <1>4, <1>5, <1>6, <2>1, <2>2, <2>3
<1>15. new # << >> /\ n + 1 \in Range(new[Len(new)])
  <2>1. last \in DOMAIN new /\ n + 1 \in Range(new[last])
    BY <1>2, <1>4, <1>6
  <2>2. new # << >>
    BY <2>1
  <2> QED
    BY <1>4, <2>1, <2>2
<1>16. ASSUME NEW a \in DOMAIN new, NEW k \in DOMAIN new[a], NEW l \in DOMAIN new[a], k < l
       PROVE  new[a][k] < new[a][l]
  <2>1. CASE a # last
    BY <1>4, <1>5, <1>16, <2>1 DEF Placed
  <2>2. CASE a = last
    <3>1. PICK s : s = groups[last]
      OBVIOUS
    <3>2. s \in Seq(1..n) /\ Len(s) \in Nat /\ DOMAIN s = 1..Len(s)
      BY <1>3, <3>1
    <3>3. /\ DOMAIN new[a] = 1..(Len(s) + 1)
          /\ new[a][Len(s) + 1] = n + 1 /\ \A m \in 1..Len(s) : new[a][m] = s[m]
      BY <1>5, <2>2, <3>1, <3>2
    <3>4. \A m \in 1..Len(s) : s[m] \in 1..n
      BY <3>2
    <3>5. k \in 1..Len(s)
      BY <1>16, <3>2, <3>3
    <3>6. CASE l = Len(s) + 1
      BY <3>3, <3>4, <3>5, <3>6
    <3>7. CASE l \in 1..Len(s)
      <4>1. s[k] < s[l]
        BY <1>2, <1>16, <3>1, <3>2, <3>5, <3>7 DEF Placed
      <4> QED
        BY <3>3, <3>5, <3>7, <4>1
    <3> QED
      BY <3>2, <3>3, <3>6, <3>7
  <2> QED
    BY <2>1, <2>2
<1>17. ASSUME NEW i \in 1..(n + 1), i < n + 1, Together(t, i, i + 1)
       PROVE  \E a \in DOMAIN new : {i, i + 1} \subseteq Range(new[a])
  <2>1. \A a \in DOMAIN groups : Range(groups[a]) \subseteq Range(new[a])
    BY <1>5, <1>6
  <2>2. CASE i = n
    <3>1. n \in Range(groups[last])
      BY <1>17, <2>2 DEF Placed
    <3> QED
      BY <1>2, <1>4, <1>6, <2>2, <3>1
  <2>3. CASE i < n
    <3>1. PICK a \in DOMAIN groups : {i, i + 1} \subseteq Range(groups[a])
      <4>1. i \in 1..n
        BY <1>17, <2>3
      <4>2. \A j \in 1..n : j < n /\ Together(t, j, j + 1) =>
              \E a \in DOMAIN groups : {j, j + 1} \subseteq Range(groups[a])
        BY DEF Placed
      <4> QED
        BY <1>17, <2>3, <4>1, <4>2
    <3> QED
      BY <1>4, <2>1, <3>1
  <2> QED
    BY <1>17, <2>2, <2>3
<1> HIDE DEF new
<1> QED
  <2>1. Placed(t, new, n + 1)
    <3>1. n + 1 > 0 => new # << >> /\ n + 1 \in Range(new[Len(new)])
      BY <1>15
    <3> QED
      BY <1>10, <1>11, <1>12, <1>13, <1>14, <1>16, <1>17, <3>1 DEF Placed
  <2> QED
    BY <2>1 DEF new

(* A phase that begins a group.                                            *)
LEMMA OpeningPlaces ==
  ASSUME NEW t, NEW n \in Nat, NEW groups, Placed(t, groups, n), ~ Joins(t, groups, n + 1)
  PROVE  Placed(t, Append(groups, <<n + 1>>), n + 1)
<1>1. PICK new : new = Append(groups, <<n + 1>>)
  OBVIOUS
<1>2. PICK last : last = Len(groups) + 1
  OBVIOUS
<1>3. groups \in Seq(Seq(1..n)) /\ DOMAIN groups = 1..(last - 1) /\ last \in Nat \ {0}
  BY <1>2 DEF Placed
<1>4. /\ DOMAIN new = 1..last /\ Len(new) = last
      /\ new[last] = <<n + 1>> /\ \A a \in DOMAIN groups : new[a] = groups[a]
  BY <1>1, <1>2, <1>3
<1>5. Range(new[last]) = {n + 1}
  BY <1>4 DEF Range
<1>6. \A a \in DOMAIN groups : groups[a] \in Seq(1..n) /\ Range(groups[a]) \subseteq 1..n
  BY <1>3 DEF Range
<1>7. \A a \in DOMAIN new : a \in DOMAIN groups \/ a = last
  BY <1>3, <1>4
<1>8. DOMAIN groups \subseteq DOMAIN new /\ last \in DOMAIN new /\ \A a \in DOMAIN groups : a < last
  BY <1>3, <1>4
<1>9. new \in Seq(Seq(1..(n + 1)))
  <2>1. ASSUME NEW a \in DOMAIN groups PROVE groups[a] \in Seq(1..(n + 1))
    <3>1. 1..n \subseteq 1..(n + 1)
      OBVIOUS
    <3> QED
      BY <1>6, <3>1, SeqMonotonic
  <2>2. <<n + 1>> \in Seq(1..(n + 1))
    OBVIOUS
  <2>3. groups \in Seq(Seq(1..(n + 1)))
    <3>1. groups = [a \in 1..(last - 1) |-> groups[a]] /\ last - 1 \in Nat
      BY <1>3
    <3> QED
      BY <1>3, <2>1, <3>1, SeqDef
  <2> QED
    BY <1>1, <2>2, <2>3
<1>10. \A a \in DOMAIN new : new[a] # << >>
  <2>1. <<n + 1>> # << >>
    OBVIOUS
  <2>2. \A a \in DOMAIN groups : groups[a] # << >>
    BY DEF Placed
  <2> QED
    BY <1>4, <1>7, <2>1, <2>2
<1>11. ASSUME NEW i \in 1..(n + 1) PROVE \E a \in DOMAIN new : i \in Range(new[a])
  <2>1. CASE i = n + 1
    BY <1>5, <1>8, <2>1
  <2>2. CASE i \in 1..n
    <3>1. PICK a \in DOMAIN groups : i \in Range(groups[a])
      BY <2>2 DEF Placed
    <3> QED
      BY <1>4, <1>8, <3>1
  <2> QED
    BY <2>1, <2>2
<1>12. ASSUME NEW a \in DOMAIN new, NEW b \in DOMAIN new, a < b,
              NEW i \in Range(new[a]), NEW j \in Range(new[b])
       PROVE  i < j
  <2>1. a \in DOMAIN groups /\ i \in Range(groups[a]) /\ i \in 1..n
    <3>1. a \in DOMAIN groups
      BY <1>3, <1>4, <1>7, <1>12
    <3> QED
      BY <1>4, <1>6, <3>1
  <2>2. CASE b = last
    BY <1>5, <2>1, <2>2
  <2>3. CASE b \in DOMAIN groups
    BY <1>4, <1>12, <2>1, <2>3 DEF Placed
  <2> QED
    BY <1>7, <2>2, <2>3
<1>13. ASSUME NEW a \in DOMAIN new, NEW i \in Range(new[a]), NEW j \in Range(new[a]), j < i
       PROVE  Together(t, j, i)
  <2>1. CASE a = last
    BY <1>5, <1>13, <2>1
  <2>2. CASE a \in DOMAIN groups
    BY <1>4, <1>13, <2>2 DEF Placed
  <2> QED
    BY <1>7, <2>1, <2>2
<1>14. new # << >> /\ n + 1 \in Range(new[Len(new)])
  BY <1>4, <1>5, <1>8
<1>15. ASSUME NEW a \in DOMAIN new, NEW k \in DOMAIN new[a], NEW l \in DOMAIN new[a], k < l
       PROVE  new[a][k] < new[a][l]
  <2>1. CASE a = last
    BY <1>4, <1>15, <2>1
  <2>2. CASE a \in DOMAIN groups
    BY <1>4, <1>15, <2>2 DEF Placed
  <2> QED
    BY <1>7, <2>1, <2>2
<1>16. ASSUME NEW i \in 1..(n + 1), i < n + 1, Together(t, i, i + 1)
       PROVE  \E a \in DOMAIN new : {i, i + 1} \subseteq Range(new[a])
  <2>1. CASE i = n
    <3>1. groups # << >> /\ last - 1 \in DOMAIN groups /\ Len(groups) = last - 1
      BY <1>2, <1>3, <1>16, <2>1 DEF Placed
    <3>2. PICK f : f = groups[last - 1][1]
      OBVIOUS
    <3>3. f \in Range(groups[last - 1])
      <4>1. groups[last - 1] # << >>
        BY <3>1 DEF Placed
      <4>2. groups[last - 1] \in Seq(1..n)
        BY <1>6, <3>1
      <4>3. 1 \in DOMAIN groups[last - 1]
        BY <4>1, <4>2
      <4> QED
        BY <3>2, <4>3 DEF Range
    <3>4. f \in 1..n /\ n \in Range(groups[last - 1])
      BY <1>6, <1>16, <2>1, <3>1, <3>3 DEF Placed
    <3>5. t[f].group = t[n].group
      <4>1. CASE f = n
        BY <4>1
      <4>2. CASE f < n
        <5>1. Together(t, f, n) /\ f \in f..n
          BY <3>1, <3>3, <3>4, <4>2 DEF Placed
        <5> QED
          BY <5>1 DEF Together
      <4> QED
        BY <3>4, <4>1, <4>2
    <3>6. t[n].group = t[n + 1].group /\ t[n + 1].group # NoGroup
      <4>1. n \in n..(n + 1) /\ n + 1 \in n..(n + 1)
        OBVIOUS
      <4> QED
        BY <1>16, <2>1, <4>1 DEF Together
    <3>7. Joins(t, groups, n + 1)
      BY <3>1, <3>2, <3>5, <3>6 DEF Joins
    <3> QED
      BY <3>7
  <2>2. CASE i < n
    <3>1. PICK a \in DOMAIN groups : {i, i + 1} \subseteq Range(groups[a])
      <4>1. i \in 1..n
        BY <1>16, <2>2
      <4>2. \A j \in 1..n : j < n /\ Together(t, j, j + 1) =>
              \E a \in DOMAIN groups : {j, j + 1} \subseteq Range(groups[a])
        BY DEF Placed
      <4> QED
        BY <1>16, <2>2, <4>1, <4>2
    <3> QED
      BY <1>4, <1>8, <3>1
  <2> QED
    BY <1>16, <2>1, <2>2
<1> QED
  <2>1. Placed(t, new, n + 1)
    <3>1. n + 1 > 0 => new # << >> /\ n + 1 \in Range(new[Len(new)])
      BY <1>14
    <3> QED
      BY <1>9, <1>10, <1>11, <1>12, <1>13, <1>15, <1>16, <3>1 DEF Placed
  <2> QED
    BY <1>1, <2>1

-----------------------------------------------------------------------------
(* Grouped is defined by recursion; that such a function exists, and what  *)
(* holds of it, is shown by looking at the least number where it fails.    *)

Follows(t, f, n) == f = [m \in 0..n |-> IF m = 0 THEN << >> ELSE Push(t, f[m - 1], m)]

LEMMA LeastOf ==
  ASSUME NEW T \in SUBSET Nat, T # {}
  PROVE  \E k \in T : \A l \in T : ~ (l < k)
<1>1. PICK k \in T : \A l \in T : ~ (<<l, k>> \in OpToRel(<, Nat))
  BY NatLessThanWellFounded, WFMin, Zenon
<1>2. k \in Nat
  OBVIOUS
<1> QED
  BY <1>1, <1>2 DEF OpToRel

LEMMA GroupingExists == ASSUME NEW t, NEW n \in Nat PROVE \E f : Follows(t, f, n)
<1> DEFINE T == {m \in Nat : ~ \E f : Follows(t, f, m)}
<1> SUFFICES ASSUME T # {} PROVE FALSE
  OBVIOUS
<1>1. PICK k \in T : \A l \in T : ~ (l < k)
  BY LeastOf
<1>2. CASE k = 0
  <2>1. PICK f : f = [m \in 0..0 |-> << >>]
    OBVIOUS
  <2>2. [m \in 0..0 |-> << >>] = [m \in 0..0 |-> IF m = 0 THEN << >> ELSE Push(t, f[m - 1], m)]
    OBVIOUS
  <2>3. Follows(t, f, 0)
    BY <2>1, <2>2 DEF Follows
  <2> QED
    BY <1>2, <2>3
<1>3. CASE k # 0
  <2>1. k - 1 \in Nat /\ k - 1 < k
    BY <1>3
  <2>2. PICK f : Follows(t, f, k - 1)
    BY <1>1, <2>1
  <2>3. PICK g : g = [m \in 0..k |-> IF m = k THEN Push(t, f[k - 1], k) ELSE f[m]]
    OBVIOUS
  <2>4. ASSUME NEW m \in 0..k
        PROVE  g[m] = IF m = 0 THEN << >> ELSE Push(t, g[m - 1], m)
    <3>1. CASE m = 0
      <4>1. f[0] = << >>
        BY <2>1, <2>2 DEF Follows
      <4> QED
        BY <1>3, <2>3, <3>1, <4>1
    <3>2. CASE m # 0 /\ m # k
      <4>1. m \in 0..(k - 1) /\ m - 1 \in 0..k /\ m - 1 # k
        BY <3>2
      <4>2. f[m] = Push(t, f[m - 1], m)
        BY <2>2, <3>2, <4>1 DEF Follows
      <4>3. g[m] = f[m] /\ g[m - 1] = f[m - 1]
        BY <2>3, <3>2, <4>1
      <4> QED
        BY <3>2, <4>2, <4>3
    <3>3. CASE m = k
      <4>1. m - 1 \in 0..k /\ m - 1 # k
        BY <1>3, <3>3
      <4>2. g[m - 1] = f[m - 1]
        BY <2>3, <4>1
      <4> QED
        BY <1>3, <2>3, <3>3, <4>2
    <3> QED
      BY <3>1, <3>2, <3>3
  <2>5. g = [m \in 0..k |-> g[m]]
    BY <2>3
  <2>6. Follows(t, g, k)
    BY <2>4, <2>5 DEF Follows
  <2> QED
    BY <2>6
<1> QED
  BY <1>2, <1>3

LEMMA GroupedFollows == ASSUME NEW t, Len(t) \in Nat PROVE Follows(t, Grouped(t), Len(t))
<1>1. \E f : Follows(t, f, Len(t))
  BY GroupingExists
<1>2. Grouped(t) = CHOOSE f : Follows(t, f, Len(t))
  BY DEF Grouped, Follows
<1> QED
  BY <1>1, <1>2

(* What phase_groups (topology.rs) computes, for every topology: Placed is  *)
(* all that can be said of it, since it leaves no choice of groups.        *)
THEOREM GroupsArePlaced ==
  ASSUME NEW t, Len(t) \in Nat
  PROVE  Placed(t, Grouped(t)[Len(t)], Len(t))
<1>1. PICK g : g = Grouped(t) /\ Follows(t, g, Len(t))
  BY GroupedFollows
<1> DEFINE T == {m \in 0..Len(t) : ~ Placed(t, g[m], m)}
<1>2. T = {}
  <2> SUFFICES ASSUME T # {} PROVE FALSE
    OBVIOUS
  <2>1. T \subseteq Nat
    OBVIOUS
  <2>2. PICK k \in T : \A l \in T : ~ (l < k)
    BY <2>1, LeastOf
  <2>3. CASE k = 0
    <3>1. g[0] = << >>
      BY <1>1 DEF Follows
    <3> QED
      BY <2>3, <3>1, NothingPlaced
  <2>4. CASE k # 0
    <3>1. PICK n \in Nat : n = k - 1
      BY <2>4
    <3>2. n < k /\ k = n + 1 /\ n \in 0..Len(t) /\ k \in 0..Len(t)
      BY <2>4, <3>1
    <3>3. Placed(t, g[n], n)
      BY <2>2, <3>2
    <3>4. g[k] = Push(t, g[n], n + 1)
      BY <1>1, <2>4, <3>1, <3>2 DEF Follows
    <3>5. Placed(t, Push(t, g[n], n + 1), n + 1)
      BY <3>3, JoiningPlaces, OpeningPlaces DEF Push
    <3> QED
      BY <3>2, <3>4, <3>5
  <2> QED
    BY <2>3, <2>4
<1> QED
  <2>1. Len(t) \in 0..Len(t)
    OBVIOUS
  <2> QED
    BY <1>1, <1>2, <2>1

-----------------------------------------------------------------------------
(* The invariant.  The groups before the host's are completed; while it    *)
(* runs, a row is completed only if the run that resumed saw it or this    *)
(* host completed it; and only members of the host's group run.            *)

TypeInv ==
  /\ phases \in Topologies
  /\ stage \in {"off", "loaded", "run", "failed", "done"}
  /\ group \in 1..(Len(PhaseGroups) + 1)
  /\ skip \subseteq Names
  /\ work \in [DOMAIN phases -> Work]
  /\ rows \in [Names -> Row]

Completed(i) == rows[phases[i].name].status = "completed"

RowsTrue ==
  \A i \in DOMAIN phases : Completed(i) => rows[phases[i].name].output = i

IdleUntilRun == stage \in {"off", "loaded"} => work = Idle

WorkWritten ==
  stage \in {"run", "failed"} =>
    \A i \in DOMAIN phases : Completed(i) <=> phases[i].name \in skip \/ work[i] = "completed"

EarlierCompleted ==
  stage = "run" => \A a \in DOMAIN PhaseGroups : a < group => \A i \in Range(PhaseGroups[a]) : Completed(i)

RunningIsDue ==
  \A i \in DOMAIN phases : work[i] = "running" => Working /\ i \in ToDo

AgentsLoaded == stage # "off" => Required \subseteq agents

IInv ==
  /\ TypeInv /\ RowsTrue /\ IdleUntilRun /\ WorkWritten
  /\ EarlierCompleted /\ RunningIsDue /\ AgentsLoaded

(* What the operators of the model say of a topology of the instance.      *)
LEMMA PhasesGrouped ==
  ASSUME phases \in Topologies
  PROVE  /\ Len(phases) \in Nat /\ DOMAIN phases = 1..Len(phases)
         /\ \A i, j \in DOMAIN phases : phases[i].name = phases[j].name => i = j
         /\ Placed(phases, PhaseGroups, Len(phases))
         /\ Len(PhaseGroups) \in Nat /\ DOMAIN PhaseGroups = 1..Len(PhaseGroups)
         /\ \A a \in DOMAIN PhaseGroups : Range(PhaseGroups[a]) \subseteq DOMAIN phases
<1>1. phases \in Seq(Range(phases))
  BY PipelineConstantsOK
<1>2. Len(phases) \in Nat /\ DOMAIN phases = 1..Len(phases)
  BY <1>1
<1>3. \A i, j \in DOMAIN phases : phases[i].name = phases[j].name => i = j
  BY PipelineConstantsOK
<1>4. Placed(phases, PhaseGroups, Len(phases))
  BY <1>2, GroupsArePlaced DEF PhaseGroups
<1>5. PhaseGroups \in Seq(Seq(1..Len(phases)))
  BY <1>4 DEF Placed
<1>6. \A a \in DOMAIN PhaseGroups : Range(PhaseGroups[a]) \subseteq DOMAIN phases
  BY <1>2, <1>5 DEF Range
<1> QED
  BY <1>2, <1>3, <1>4, <1>5, <1>6

LEMMA MembersArePhases ==
  ASSUME phases \in Topologies, Working, group \in 1..(Len(PhaseGroups) + 1)
  PROVE  group \in DOMAIN PhaseGroups /\ Members \subseteq DOMAIN phases /\ ToDo \subseteq Members
  BY PhasesGrouped DEF Working, Members, ToDo

(* What a step that leaves the topology alone leaves of its groups.        *)
LEMMA SameTopology ==
  ASSUME phases' = phases
  PROVE  PhaseGroups' = PhaseGroups /\ Names' = Names /\ Idle' = Idle /\ Required' = Required
  BY DEF PhaseGroups, Names, Idle, Required

LEMMA Starts == Init => IInv
<1> SUFFICES ASSUME Init PROVE IInv
  OBVIOUS
<1>1. phases \in Topologies
  BY DEF Init
<1>2. Len(PhaseGroups) \in Nat
  BY <1>1, PhasesGrouped
<1>3. NoRow \in Row /\ NoRow.status # "completed"
  BY DEF NoRow, Row, Statuses
<1>4. \A i \in DOMAIN phases : phases[i].name \in Names
  BY DEF Names
<1>5. \A i \in DOMAIN phases : ~ Completed(i)
  BY <1>3, <1>4 DEF Init, Completed
<1>6. TypeInv
  BY <1>1, <1>2, <1>3 DEF Init, TypeInv, Idle, Work
<1>7. \A i \in DOMAIN phases : work[i] = "idle"
  BY DEF Init, Idle
<1> QED
  BY <1>5, <1>6, <1>7
     DEF Init, IInv, RowsTrue, IdleUntilRun, WorkWritten, EarlierCompleted,
         RunningIsDue, AgentsLoaded

(* The steps that leave the rows alone.                                    *)
LEMMA LoadKeeps == ASSUME IInv, Load \/ AddFile PROVE IInv'
<1>1. /\ phases' = phases /\ group' = group /\ skip' = skip /\ work' = work /\ rows' = rows
  BY DEF Load, AddFile, host
<1>2. PhaseGroups' = PhaseGroups /\ Names' = Names /\ Idle' = Idle /\ Required' = Required
  BY <1>1, SameTopology
<1>3. CASE Load
  <2>1. stage = "off" /\ stage' = "loaded" /\ Required \subseteq agents'
    BY <1>3 DEF Load, Loads
  <2>2. \A i \in DOMAIN phases : work[i] # "running"
    BY <2>1 DEF IInv, IdleUntilRun, Idle
  <2> QED
    BY <1>1, <1>2, <2>1, <2>2
       DEF IInv, TypeInv, RowsTrue, IdleUntilRun, WorkWritten, EarlierCompleted,
           RunningIsDue, AgentsLoaded, Completed
<1>4. CASE AddFile
  <2>1. stage' = stage /\ agents' = agents
    BY <1>4 DEF AddFile, host
  <2> QED
    BY <1>1, <1>2, <2>1
       DEF IInv, TypeInv, RowsTrue, IdleUntilRun, WorkWritten, EarlierCompleted,
           RunningIsDue, AgentsLoaded, Completed, Working, ToDo, Members
<1> QED
  BY <1>3, <1>4

LEMMA ResumeKeeps == ASSUME IInv, Resume PROVE IInv'
<1>1. /\ stage = "loaded" /\ stage' = "run" /\ group' = 1 /\ skip' = Finished
      /\ phases' = phases /\ agents' = agents /\ work' = work /\ rows' = rows
  BY DEF Resume
<1>2. PhaseGroups' = PhaseGroups /\ Names' = Names /\ Idle' = Idle /\ Required' = Required
  BY <1>1, SameTopology
<1>3. phases \in Topologies /\ Len(PhaseGroups) \in Nat /\ DOMAIN PhaseGroups = 1..Len(PhaseGroups)
  BY PhasesGrouped DEF IInv, TypeInv
<1>4. \A i \in DOMAIN phases : work[i] = "idle" /\ phases[i].name \in Names
  BY <1>1 DEF IInv, IdleUntilRun, Idle, Names
<1>5. \A i \in DOMAIN phases : phases[i].name \in skip' <=> Completed(i)
  BY <1>1, <1>4 DEF Finished, Completed
<1>6. TypeInv'
  BY <1>1, <1>2, <1>3 DEF IInv, TypeInv, Finished
<1>7. EarlierCompleted'
  <2>1. \A a \in DOMAIN PhaseGroups : ~ (a < 1)
    BY <1>3
  <2> QED
    BY <1>1, <1>2, <2>1 DEF EarlierCompleted
<1> QED
  BY <1>1, <1>2, <1>4, <1>5, <1>6, <1>7
     DEF IInv, RowsTrue, IdleUntilRun, WorkWritten, RunningIsDue, AgentsLoaded, Completed

LEMMA NextGroupKeeps == ASSUME IInv, NextGroup PROVE IInv'
<1>1. /\ phases' = phases /\ agents' = agents /\ skip' = skip /\ work' = work /\ rows' = rows
      /\ Working /\ stage = "run"
  BY DEF NextGroup, Working
<1>2. PhaseGroups' = PhaseGroups /\ Names' = Names /\ Idle' = Idle /\ Required' = Required
  BY <1>1, SameTopology
<1>3. phases \in Topologies /\ Len(PhaseGroups) \in Nat /\ DOMAIN PhaseGroups = 1..Len(PhaseGroups)
  BY PhasesGrouped DEF IInv, TypeInv
<1>4. group \in DOMAIN PhaseGroups /\ Members \subseteq DOMAIN phases
  BY <1>1, <1>3, MembersArePhases DEF IInv, TypeInv
<1>5. \A i \in DOMAIN phases : work[i] # "running"
  BY DEF NextGroup, IInv, RunningIsDue
<1>6. CASE stage' = "failed" /\ group' = group
  BY <1>1, <1>2, <1>5, <1>6
     DEF IInv, TypeInv, RowsTrue, IdleUntilRun, WorkWritten, EarlierCompleted,
         RunningIsDue, AgentsLoaded, Completed
<1>7. CASE group' = group + 1 /\ stage' = stage /\ ~ \E i \in ToDo : work[i] = "failed"
  <2>1. ASSUME NEW i \in Members PROVE Completed(i)
    <3>1. CASE i \in ToDo
      <4>1. work[i] = "completed"
        BY <1>7, <3>1 DEF NextGroup
      <4> QED
        BY <1>1, <1>4, <4>1 DEF IInv, WorkWritten
    <3>2. CASE i \notin ToDo
      BY <1>1, <1>4, <3>2 DEF ToDo, IInv, WorkWritten
    <3> QED
      BY <3>1, <3>2
  <2>2. ASSUME NEW a \in DOMAIN PhaseGroups, a < group + 1, NEW i \in Range(PhaseGroups[a])
        PROVE  Completed(i)
    <3>1. a < group \/ a = group
      BY <1>3, <1>4, <2>2
    <3> QED
      BY <1>1, <2>1, <2>2, <3>1 DEF IInv, EarlierCompleted, Members
  <2>3. EarlierCompleted'
    BY <1>1, <1>2, <1>7, <2>2 DEF EarlierCompleted, Completed
  <2>4. group' \in 1..(Len(PhaseGroups) + 1)
    BY <1>3, <1>4, <1>7
  <2>5. TypeInv'
    BY <1>1, <1>2, <1>7, <2>4 DEF IInv, TypeInv
  <2> QED
    BY <1>1, <1>2, <1>5, <1>7, <2>3, <2>5
       DEF IInv, RowsTrue, IdleUntilRun, WorkWritten,
           RunningIsDue, AgentsLoaded, Completed
<1> QED
  BY <1>6, <1>7 DEF NextGroup

LEMMA RestartKeeps == ASSUME IInv, Restart PROVE IInv'
<1>1. /\ stage' = "off" /\ agents' = {} /\ skip' = {} /\ work' = Idle /\ group' = 1
      /\ phases' = phases /\ rows' = rows
  BY DEF Restart
<1>2. PhaseGroups' = PhaseGroups /\ Names' = Names /\ Idle' = Idle
  BY <1>1, SameTopology
<1>3. Len(PhaseGroups) \in Nat
  BY PhasesGrouped DEF IInv, TypeInv
<1>4. TypeInv'
  BY <1>1, <1>2, <1>3 DEF IInv, TypeInv, Idle, Work
<1>5. \A i \in DOMAIN phases : work'[i] # "running"
  BY <1>1 DEF Idle
<1> QED
  BY <1>1, <1>2, <1>4, <1>5
     DEF IInv, RowsTrue, IdleUntilRun, WorkWritten, EarlierCompleted,
         RunningIsDue, AgentsLoaded, Completed

(* The run is over: its rows are cleared.                                  *)
LEMMA FinishKeeps == ASSUME IInv, Finish PROVE IInv' /\ \A i \in DOMAIN phases : Completed(i)
<1>1. /\ stage = "run" /\ stage' = "done" /\ group > Len(PhaseGroups)
      /\ rows' = [n \in Names |-> NoRow]
      /\ phases' = phases /\ agents' = agents /\ group' = group /\ skip' = skip /\ work' = work
  BY DEF Finish, ClearRunCheckpoints
<1>2. PhaseGroups' = PhaseGroups /\ Names' = Names /\ Required' = Required /\ Idle' = Idle
  BY <1>1, SameTopology
<1>3. /\ phases \in Topologies /\ Len(PhaseGroups) \in Nat /\ DOMAIN PhaseGroups = 1..Len(PhaseGroups)
      /\ DOMAIN phases = 1..Len(phases) /\ Placed(phases, PhaseGroups, Len(phases))
  BY PhasesGrouped DEF IInv, TypeInv
<1>4. ASSUME NEW i \in DOMAIN phases PROVE Completed(i)
  <2>1. PICK a \in DOMAIN PhaseGroups : i \in Range(PhaseGroups[a])
    BY <1>3 DEF Placed
  <2>2. a < group
    BY <1>1, <1>3, <2>1 DEF IInv, TypeInv
  <2> QED
    BY <1>1, <2>1, <2>2 DEF IInv, EarlierCompleted
<1>5. NoRow \in Row /\ NoRow.status # "completed"
  BY DEF NoRow, Row, Statuses
<1>6. \A i \in DOMAIN phases : work[i] # "running"
  BY <1>1, <1>3 DEF IInv, TypeInv, RunningIsDue, Working
<1>7. TypeInv'
  BY <1>1, <1>2, <1>5 DEF IInv, TypeInv
<1>8. \A i \in DOMAIN phases : phases[i].name \in Names
  BY DEF Names
<1>9. RowsTrue'
  BY <1>1, <1>5, <1>8 DEF RowsTrue, Completed
<1>10. IInv'
  BY <1>1, <1>2, <1>6, <1>7, <1>9
     DEF IInv, IdleUntilRun, WorkWritten, EarlierCompleted, RunningIsDue, AgentsLoaded
<1> QED
  BY <1>4, <1>10

(* A step of a phase that is due: its work and its row change together,    *)
(* and the row was not completed.                                          *)
LEMMA PhaseKeeps ==
  ASSUME IInv, Working, NEW i \in ToDo, work[i] # "completed",
         NEW w \in Work, NEW row \in Row,
         work' = [work EXCEPT ![i] = w], rows' = [rows EXCEPT ![phases[i].name] = row],
         row.status = "completed" <=> w = "completed",
         row.status = "completed" => row.output = i,
         UNCHANGED <<phases, agents, stage, group, skip>>
  PROVE  IInv' /\ ~ Completed(i) /\ i \in DOMAIN phases
<1>1. /\ phases \in Topologies /\ Len(PhaseGroups) \in Nat /\ DOMAIN PhaseGroups = 1..Len(PhaseGroups)
      /\ \A j, k \in DOMAIN phases : phases[j].name = phases[k].name => j = k
      /\ DOMAIN phases = 1..Len(phases) /\ Placed(phases, PhaseGroups, Len(phases))
      /\ \A a \in DOMAIN PhaseGroups : Range(PhaseGroups[a]) \subseteq DOMAIN phases
  BY PhasesGrouped DEF IInv, TypeInv
<1>2. PhaseGroups' = PhaseGroups /\ Names' = Names /\ Idle' = Idle /\ Required' = Required
  BY SameTopology
<1>3. group \in DOMAIN PhaseGroups /\ ToDo \subseteq DOMAIN phases /\ stage = "run"
  BY <1>1, MembersArePhases DEF IInv, TypeInv, Working
<1>4. i \in DOMAIN phases /\ phases[i].name \in Names /\ phases[i].name \notin skip
  BY <1>3 DEF ToDo, Names
<1>5. ~ Completed(i)
  BY <1>3, <1>4 DEF IInv, WorkWritten
<1>6. /\ work'[i] = w /\ rows'[phases[i].name] = row
      /\ \A j \in DOMAIN phases : j # i =>
           work'[j] = work[j] /\ rows'[phases[j].name] = rows[phases[j].name]
  <2>1. work \in [DOMAIN phases -> Work] /\ rows \in [Names -> Row]
    BY DEF IInv, TypeInv
  <2>2. \A j \in DOMAIN phases : phases[j].name \in Names
    BY DEF Names
  <2> QED
    BY <1>1, <1>4, <2>1, <2>2
<1>7. TypeInv'
  BY <1>2, <1>4 DEF IInv, TypeInv
<1>8. RowsTrue'
  BY <1>6 DEF IInv, RowsTrue, Completed
<1>9. WorkWritten'
  <2> SUFFICES ASSUME NEW j \in DOMAIN phases
               PROVE  rows'[phases[j].name].status = "completed"
                        <=> phases[j].name \in skip \/ work'[j] = "completed"
    BY DEF WorkWritten, Completed
  <2>1. CASE j = i
    BY <1>4, <1>6, <2>1
  <2>2. CASE j # i
    BY <1>3, <1>6, <2>2 DEF IInv, WorkWritten, Completed
  <2> QED
    BY <2>1, <2>2
<1>10. EarlierCompleted'
  <2> SUFFICES ASSUME NEW a \in DOMAIN PhaseGroups, a < group, NEW j \in Range(PhaseGroups[a])
               PROVE  rows'[phases[j].name].status = "completed"
    BY <1>2 DEF EarlierCompleted, Completed
  <2>1. Completed(j) /\ j \in DOMAIN phases
    BY <1>1, <1>3 DEF IInv, EarlierCompleted
  <2>2. j # i
    BY <1>5, <2>1
  <2> QED
    BY <1>6, <2>1, <2>2 DEF Completed
<1>11. RunningIsDue'
  <2> SUFFICES ASSUME NEW j \in DOMAIN phases, work'[j] = "running"
               PROVE  Working' /\ (j \in ToDo)'
    BY DEF RunningIsDue
  <2>1. Working' /\ ToDo' = ToDo
    BY <1>2 DEF Working, ToDo, Members
  <2>2. j \in ToDo
    BY <1>6 DEF IInv, RunningIsDue
  <2> QED
    BY <2>1, <2>2
<1>12. IdleUntilRun' /\ AgentsLoaded'
  BY <1>2, <1>3 DEF IInv, IdleUntilRun, AgentsLoaded
<1> QED
  BY <1>4, <1>5, <1>7, <1>8, <1>9, <1>10, <1>11, <1>12 DEF IInv

(* The same of the three steps, and nobody else's row changes.             *)
LEMMA PhaseSteps ==
  ASSUME IInv, NEW i \in DOMAIN phases, Begin(i) \/ Complete(i) \/ Fail(i)
  PROVE  /\ IInv'
         /\ ~ Completed(i)
         /\ \A n \in Names : n # phases[i].name => rows'[n] = rows[n]
<1>1. /\ Working /\ i \in ToDo /\ work[i] # "completed"
      /\ UNCHANGED <<phases, agents, stage, group, skip>>
  BY DEF Begin, Complete, Fail
<1>2. rows \in [Names -> Row] /\ work \in [DOMAIN phases -> Work] /\ phases[i].name \in Names
  BY DEF IInv, TypeInv, Names
<1>3. PICK attempt : attempt = rows[phases[i].name].attempt
  OBVIOUS
<1>4. attempt \in Nat /\ attempt + 1 \in Nat
  BY <1>2, <1>3 DEF Row
<1>5. i \in Nat
  BY PhasesGrouped DEF IInv, TypeInv
<1> DEFINE Written(status, output, n) ==
             rows' = [rows EXCEPT ![phases[i].name] =
                        [status |-> status, output |-> output, attempt |-> n]]
<1>6. ASSUME NEW status \in Statuses, NEW output \in Nat, NEW n \in Nat, Written(status, output, n)
      PROVE  /\ [status |-> status, output |-> output, attempt |-> n] \in Row
             /\ \A m \in Names : m # phases[i].name => rows'[m] = rows[m]
  BY <1>2, <1>6 DEF Row
<1>7. ASSUME NEW status \in Statuses \ {"completed"}, NEW n \in Nat, Written(status, 0, n),
             NEW w \in Work \ {"completed"}, work' = [work EXCEPT ![i] = w]
      PROVE  IInv' /\ ~ Completed(i)
  <2>1. PICK row : row = [status |-> status, output |-> 0, attempt |-> n]
    OBVIOUS
  <2>2. row \in Row /\ row.status # "completed" /\ rows' = [rows EXCEPT ![phases[i].name] = row]
    BY <1>6, <1>7, <2>1
  <2> QED
    BY <1>1, <1>7, <2>2, PhaseKeeps
<1>8. CASE Begin(i)
  <2>1. Written("in_progress", 0, attempt) /\ work' = [work EXCEPT ![i] = "running"]
    BY <1>3, <1>8 DEF Begin, UpsertPhaseCheckpoint
  <2>2. "in_progress" \in Statuses \ {"completed"} /\ "running" \in Work \ {"completed"} /\ 0 \in Nat
    BY DEF Statuses, Work
  <2> HIDE DEF Written
  <2> QED
    BY <1>4, <1>6, <1>7, <2>1, <2>2
<1>9. CASE Complete(i)
  <2>1. Written("completed", i, attempt) /\ work' = [work EXCEPT ![i] = "completed"]
    BY <1>3, <1>9 DEF Complete, UpsertPhaseCheckpoint
  <2>2. "completed" \in Statuses /\ "completed" \in Work
    BY DEF Statuses, Work
  <2>3. PICK row : row = [status |-> "completed", output |-> i, attempt |-> attempt]
    OBVIOUS
  <2>4. row \in Row /\ row.status = "completed" /\ row.output = i
    BY <1>4, <1>5, <2>2, <2>3 DEF Row
  <2>5. rows' = [rows EXCEPT ![phases[i].name] = row]
    BY <2>1, <2>3
  <2>6. IInv' /\ ~ Completed(i)
    BY <1>1, <2>1, <2>2, <2>4, <2>5, PhaseKeeps
  <2> QED
    BY <1>2, <2>5, <2>6
<1>10. CASE Fail(i)
  <2>1. {"in_progress", "failed"} \subseteq Statuses \ {"completed"}
        /\ {"running", "failed"} \subseteq Work \ {"completed"} /\ 0 \in Nat
    BY DEF Statuses, Work
  <2>2. \/ Written("in_progress", 0, attempt + 1) /\ work' = work
        \/ Written("failed", 0, attempt) /\ work' = [work EXCEPT ![i] = "failed"]
    BY <1>3, <1>10 DEF Fail, UpsertPhaseCheckpoint
  <2>3. work[i] = "running" /\ work = [work EXCEPT ![i] = "running"]
    BY <1>2, <1>10 DEF Fail
  <2> HIDE DEF Written
  <2>4. CASE Written("in_progress", 0, attempt + 1) /\ work' = work
    BY <1>4, <1>6, <1>7, <2>1, <2>3, <2>4
  <2>5. CASE Written("failed", 0, attempt) /\ work' = [work EXCEPT ![i] = "failed"]
    BY <1>4, <1>6, <1>7, <2>1, <2>5
  <2> QED
    BY <2>2, <2>4, <2>5
<1> QED
  BY <1>8, <1>9, <1>10

LEMMA StepKeeps == IInv /\ [Next]_vars => IInv'
<1> SUFFICES ASSUME IInv, [Next]_vars PROVE IInv'
  OBVIOUS
<1>1. CASE Load \/ AddFile
  BY <1>1, LoadKeeps
<1>2. CASE Resume
  BY <1>2, ResumeKeeps
<1>3. CASE NextGroup
  BY <1>3, NextGroupKeeps
<1>4. CASE Finish
  BY <1>4, FinishKeeps
<1>5. CASE Restart
  BY <1>5, RestartKeeps
<1>6. ASSUME NEW i \in DOMAIN phases, Begin(i) \/ Complete(i) \/ Fail(i) PROVE IInv'
  BY <1>6, PhaseSteps
<1>7. CASE UNCHANGED vars
  <2>1. PhaseGroups' = PhaseGroups /\ Names' = Names /\ Idle' = Idle /\ Required' = Required
    BY <1>7, SameTopology DEF vars
  <2> QED
    BY <1>7, <2>1
       DEF vars, host, IInv, TypeInv, RowsTrue, IdleUntilRun, WorkWritten, EarlierCompleted,
           RunningIsDue, AgentsLoaded, Completed, Working, ToDo, Members
<1> QED
  BY <1>1, <1>2, <1>3, <1>4, <1>5, <1>6, <1>7 DEF Next

LEMMA InvariantHolds == Spec => []IInv
  BY Starts, StepKeeps, PTL DEF Spec

-----------------------------------------------------------------------------

(* What PhasesRunInTurn says of phase_groups (topology.rs), of the         *)
(* checkpoints a resumed run reads (checkpoints.rs) and of the agents that *)
(* load_topology demands, for every topology: however often the host dies  *)
(* and resumes, a phase runs on the outputs of all phases before it.       *)
THEOREM PhasesTakeTurns == Spec => []PhasesRunInTurn
<1>1. IInv => PhasesRunInTurn
  <2> SUFFICES ASSUME IInv, NEW i \in DOMAIN phases, work[i] = "running"
               PROVE  /\ \A j \in 1..(i - 1) :
                           \/ Parallel(j, i)
                           \/ rows[phases[j].name].status = "completed" /\ rows[phases[j].name].output = j
                      /\ {phases[i].agent, phases[i].fix} \subseteq agents \cup {NoAgent}
    BY DEF PhasesRunInTurn
  <2>1. Working /\ i \in ToDo /\ stage = "run"
    BY DEF IInv, RunningIsDue, Working
  <2>2. /\ phases \in Topologies /\ DOMAIN phases = 1..Len(phases) /\ Len(phases) \in Nat
        /\ Placed(phases, PhaseGroups, Len(phases))
        /\ Len(PhaseGroups) \in Nat /\ DOMAIN PhaseGroups = 1..Len(PhaseGroups)
    BY PhasesGrouped DEF IInv, TypeInv
  <2>3. group \in DOMAIN PhaseGroups /\ i \in Range(PhaseGroups[group])
    BY <2>1, <2>2, MembersArePhases DEF IInv, TypeInv, ToDo, Members
  <2>4. ASSUME NEW j \in 1..(i - 1)
        PROVE  Parallel(j, i) \/ (rows[phases[j].name].status = "completed"
                                     /\ rows[phases[j].name].output = j)
    <3>1. j \in DOMAIN phases /\ j < i
      BY <2>2
    <3>2. PICK a \in DOMAIN PhaseGroups : j \in Range(PhaseGroups[a])
      BY <2>2, <3>1 DEF Placed
    <3>3. CASE a = group
      <4>1. Together(phases, j, i)
        BY <2>2, <2>3, <3>1, <3>2, <3>3 DEF Placed
      <4> QED
        BY <4>1 DEF Together, Parallel
    <3>4. CASE a < group
      <4>1. Completed(j)
        BY <2>1, <3>2, <3>4 DEF IInv, EarlierCompleted
      <4> QED
        BY <3>1, <4>1 DEF IInv, RowsTrue, Completed
    <3>5. CASE group < a
      <4>1. i < j
        BY <2>2, <2>3, <3>2, <3>5 DEF Placed
      <4> QED
        BY <2>2, <3>1, <4>1
    <3>6. a \in Nat /\ group \in Nat
      BY <2>2, <2>3
    <3> QED
      BY <3>3, <3>4, <3>5, <3>6
  <2>5. {phases[i].agent, phases[i].fix} \subseteq Required \cup {NoAgent}
    BY DEF Required
  <2> QED
    BY <2>1, <2>4, <2>5 DEF IInv, AgentsLoaded
<1> QED
  BY <1>1, InvariantHolds, PTL

(* What CompletedStays says of the rows of phase_checkpoints: no resumed   *)
(* run begins a completed phase again, and clear_run_checkpoints comes     *)
(* when every phase is completed.                                          *)
THEOREM OutputsStay == Spec => CompletedStays
<1>1. IInv /\ [Next]_vars =>
        [\A n \in Names : rows[n].status = "completed" /\ rows'[n] # rows[n] =>
           \A m \in Names : rows[m].status = "completed"]_vars
  <2> SUFFICES ASSUME IInv, Next, NEW n \in Names, rows[n].status = "completed", rows'[n] # rows[n]
               PROVE  \A m \in Names : rows[m].status = "completed"
    OBVIOUS
  <2>1. CASE Load \/ AddFile \/ Resume \/ NextGroup \/ Restart
    BY <2>1 DEF Load, AddFile, Resume, NextGroup, Restart
  <2>2. CASE Finish
    BY <2>2, FinishKeeps DEF Completed, Names
  <2>3. ASSUME NEW i \in DOMAIN phases, Begin(i) \/ Complete(i) \/ Fail(i) PROVE FALSE
    BY <2>3, PhaseSteps DEF Completed
  <2> QED
    BY <2>1, <2>2, <2>3 DEF Next
<1> QED
  BY <1>1, InvariantHolds, PTL DEF Spec, CompletedStays

-----------------------------------------------------------------------------
(* Gathered is defined by recursion, as Grouped is.                        *)
Gathers(f, on, more, n) ==
  f = [m \in 0..n |-> IF m = 0 THEN {} ELSE IF on[m] THEN Adds(f[m - 1], more[m]) ELSE f[m - 1]]

LEMMA GatheringExists == ASSUME NEW on, NEW more, NEW n \in Nat PROVE \E f : Gathers(f, on, more, n)
<1> DEFINE T == {m \in Nat : ~ \E f : Gathers(f, on, more, m)}
<1> SUFFICES ASSUME T # {} PROVE FALSE
  OBVIOUS
<1>1. PICK k \in T : \A l \in T : ~ (l < k)
  BY LeastOf
<1> DEFINE Added(g, m) == IF on[m] THEN Adds(g[m - 1], more[m]) ELSE g[m - 1]
<1>2. CASE k = 0
  <2>1. PICK f : f = [m \in 0..0 |-> {}]
    OBVIOUS
  <2>2. [m \in 0..0 |-> {}] = [m \in 0..0 |-> IF m = 0 THEN {} ELSE Added(f, m)]
    OBVIOUS
  <2>3. Gathers(f, on, more, 0)
    BY <2>1, <2>2 DEF Gathers
  <2> QED
    BY <1>2, <2>3
<1>3. CASE k # 0
  <2>1. k - 1 \in Nat /\ k - 1 < k
    BY <1>3
  <2>2. PICK f : Gathers(f, on, more, k - 1)
    BY <1>1, <2>1
  <2>3. PICK g : g = [m \in 0..k |-> IF m = k THEN Added(f, k) ELSE f[m]]
    OBVIOUS
  <2>4. ASSUME NEW m \in 0..k
        PROVE  g[m] = IF m = 0 THEN {} ELSE Added(g, m)
    <3>1. CASE m = 0
      <4>1. f[0] = {}
        BY <2>1, <2>2 DEF Gathers
      <4> QED
        BY <1>3, <2>3, <3>1, <4>1
    <3>2. CASE m # 0 /\ m # k
      <4>1. m \in 0..(k - 1) /\ m - 1 \in 0..k /\ m - 1 # k
        BY <3>2
      <4>2. f[m] = Added(f, m)
        BY <2>2, <3>2, <4>1 DEF Gathers
      <4>3. g[m] = f[m] /\ g[m - 1] = f[m - 1]
        BY <2>3, <3>2, <4>1
      <4> QED
        BY <3>2, <4>2, <4>3
    <3>3. CASE m = k
      <4>1. m - 1 \in 0..k /\ m - 1 # k
        BY <1>3, <3>3
      <4>2. g[m - 1] = f[m - 1]
        BY <2>3, <4>1
      <4>3. g[m] = Added(f, m)
        BY <2>3, <3>3
      <4> QED
        BY <1>3, <3>3, <4>2, <4>3
    <3> QED
      BY <3>1, <3>2, <3>3
  <2>5. g = [m \in 0..k |-> g[m]]
    BY <2>3
  <2>6. Gathers(g, on, more, k)
    BY <2>4, <2>5 DEF Gathers
  <2> QED
    BY <2>6
<1> QED
  BY <1>2, <1>3

LEMMA GatheredIs == ASSUME NEW on, NEW more, Len(more) \in Nat PROVE Gathers(Gathered(on, more), on, more, Len(more))
<1>1. \E f : Gathers(f, on, more, Len(more))
  BY GatheringExists
<1>2. Gathered(on, more) = CHOOSE f : Gathers(f, on, more, Len(more))
  BY DEF Gathered, Gathers
<1> QED
  BY <1>1, <1>2

(* What the first n sources give: each thing is of the first source, of    *)
(* those that are on, that has one of its name, and every name of such a   *)
(* source is there once.                                                   *)
FirstWins(on, more, n, got) ==
  /\ \A t \in got : \E i \in 1..n :
       /\ on[i] /\ t \in more[i]
       /\ \A j \in 1..(i - 1) : on[j] => \A u \in more[j] : u.name # t.name
  /\ \A i \in 1..n : on[i] => \A t \in more[i] : \E u \in got : u.name = t.name
  /\ OneByName(got)

LEMMA AddingKeeps ==
  ASSUME NEW on, NEW more, NEW n \in Nat, NEW got, FirstWins(on, more, n, got),
         OneByName(more[n + 1])
  PROVE  FirstWins(on, more, n + 1, IF on[n + 1] THEN Adds(got, more[n + 1]) ELSE got)
<1>1. CASE ~ on[n + 1]
  <2>1. \A i \in 1..(n + 1) : on[i] => i \in 1..n
    BY <1>1
  <2>2. \A i \in 1..n : i \in 1..(n + 1)
    OBVIOUS
  <2> QED
    BY <1>1, <2>1, <2>2 DEF FirstWins
<1>2. CASE on[n + 1]
  <2>1. PICK new : new = Adds(got, more[n + 1])
    OBVIOUS
  <2>2. new = got \cup {t \in more[n + 1] : \A u \in got : u.name # t.name}
    BY <2>1 DEF Adds
  <2>3. \A i \in 1..n : i \in 1..(n + 1)
    OBVIOUS
  <2>4. n + 1 \in 1..(n + 1) /\ (\A j \in 1..((n + 1) - 1) : j \in 1..n) /\ \A i \in 1..(n + 1) : i \in 1..n \/ i = n + 1
    OBVIOUS
  <2>5. ASSUME NEW t \in new
        PROVE  \E i \in 1..(n + 1) :
                 /\ on[i] /\ t \in more[i]
                 /\ \A j \in 1..(i - 1) : on[j] => \A u \in more[j] : u.name # t.name
    <3>1. CASE t \in got
      BY <2>3, <3>1 DEF FirstWins
    <3>2. CASE t \notin got
      <4>1. t \in more[n + 1] /\ \A u \in got : u.name # t.name
        BY <2>2, <3>2
      <4>2. \A j \in 1..n : on[j] => \A u \in more[j] : u.name # t.name
        BY <4>1 DEF FirstWins
      <4>3. \A j \in 1..((n + 1) - 1) : on[j] => \A u \in more[j] : u.name # t.name
        BY <2>4, <4>2
      <4> QED
        BY <1>2, <2>4, <4>1, <4>3
    <3> QED
      BY <3>1, <3>2
  <2>6. ASSUME NEW i \in 1..(n + 1), on[i], NEW t \in more[i] PROVE \E u \in new : u.name = t.name
    <3>1. CASE i \in 1..n
      BY <2>2, <2>6, <3>1 DEF FirstWins
    <3>2. CASE i = n + 1
      BY <2>2, <3>2
    <3> QED
      BY <2>4, <3>1, <3>2
  <2>7. OneByName(new)
    BY <2>2 DEF FirstWins, OneByName
  <2> QED
    BY <1>2, <2>1, <2>5, <2>6, <2>7 DEF FirstWins
<1> QED
  BY <1>1, <1>2

LEMMA GatheredFacts ==
  ASSUME NEW N \in Nat, NEW on, NEW more, Len(more) = N, \A i \in 1..N : OneByName(more[i])
  PROVE  FirstWins(on, more, N, Gathered(on, more)[N])
<1>1. PICK f : f = Gathered(on, more) /\ Gathers(f, on, more, N)
  BY GatheredIs
<1> DEFINE T == {n \in Nat : n \in 0..N /\ ~ FirstWins(on, more, n, f[n])}
<1> SUFFICES ASSUME T # {} PROVE FALSE
  <2>1. N \in 0..N
    OBVIOUS
  <2> QED
    BY <1>1, <2>1
<1>2. PICK k \in T : \A l \in T : ~ (l < k)
  BY LeastOf
<1>3. CASE k = 0
  <2>1. f[0] = {}
    BY <1>1 DEF Gathers
  <2>2. FirstWins(on, more, 0, f[0])
    BY <2>1 DEF FirstWins, OneByName
  <2> QED
    BY <1>3, <2>2
<1>4. CASE k # 0
  <2>1. PICK n \in Nat : k = n + 1 /\ n \in 0..N /\ n < k /\ k \in 0..N /\ k \in 1..N /\ k - 1 = n
    <3>1. k - 1 \in Nat /\ k = (k - 1) + 1 /\ k - 1 \in 0..N /\ k - 1 < k /\ k \in 0..N /\ k \in 1..N
      BY <1>4
    <3> QED
      BY <3>1
  <2>2. FirstWins(on, more, n, f[n])
    BY <1>2, <2>1
  <2>3. f[k] = IF on[n + 1] THEN Adds(f[n], more[n + 1]) ELSE f[n]
    BY <1>1, <1>4, <2>1 DEF Gathers
  <2>4. OneByName(more[n + 1])
    BY <2>1
  <2>5. FirstWins(on, more, n + 1, IF on[n + 1] THEN Adds(f[n], more[n + 1]) ELSE f[n])
    BY <2>2, <2>4, AddingKeeps
  <2> QED
    BY <2>1, <2>3, <2>5
<1> QED
  BY <1>3, <1>4

-----------------------------------------------------------------------------
(* What is loaded.                                                         *)

Skill == {LoadedSkill(f, json, cs) : f \in Files, json \in Sidecars, cs \in SUBSET Commands}

(* The toolboxes of a skill have different names, and come each from an    *)
(* entry of its files that is in force; every admissible entry of the      *)
(* frontmatter has its name among them.                                    *)
ToolsDeclared(x) ==
  LET file == x.read.file IN
  /\ OneByName(x.toolboxes)
  /\ \A t \in x.toolboxes :
       \E e \in {d \in file.toolbox \cup Entries(x.read.json.toolbox) : Declares(x, d)} :
         /\ e.name = t.name /\ e.command = t.command /\ (t.network <=> e.network \/ file.network)
         /\ t.commands = file.commands /\ t.env = file.env
  /\ \A e \in file.toolbox : Admissible(e, file) => \E t \in x.toolboxes : t.name = e.name

ServersDeclared(x) ==
  LET file == x.read.file IN
  \A t \in x.servers : \E e \in file.mcp \cup Entries(x.read.json.mcp) :
    /\ e.name = t.name /\ e.command = t.command
    /\ Admissible(e, file)
    /\ e.command.dir = "" => e.command.base \in Runners

LEMMA ParsedFacts ==
  ASSUME NEW f \in Files
  PROVE  Parsed(f) \in SkillFile /\ OneByName(Parsed(f).mcp) /\ OneByName(Parsed(f).toolbox)
<1>1. f \in SkillFile /\ OneByName(f.mcp) /\ OneByName(f.toolbox)
  BY SkillConstantsOK DEF SkillConstantsOK
<1>2. CASE f.form = "toml"
  BY <1>1, <1>2 DEF Parsed
<1>3. CASE f.form # "toml"
  <2>1. PICK requires \in SUBSET STRING : requires = IF f.requires = {} THEN f.bins ELSE f.requires
    BY <1>1 DEF SkillFile
  <2>2. PICK mcp \in SUBSET ServerEntry : mcp = {e \in f.mcp : SafeMcp(e.command)}
    BY <1>1 DEF SkillFile
  <2>3. Parsed(f) = [f EXCEPT !.toolbox = {}, !.mcp = mcp, !.requires = requires]
    BY <1>3, <2>1, <2>2 DEF Parsed, ParseYamlFrontmatter
  <2>4. Parsed(f) \in SkillFile /\ Parsed(f).mcp = mcp /\ Parsed(f).toolbox = {}
    BY <1>1, <2>3 DEF SkillFile
  <2> QED
    BY <1>1, <2>2, <2>4 DEF OneByName
<1> QED
  BY <1>2, <1>3

(* The allow-list, as the loader and as the property puts it.              *)
LEMMA AllowedIsAdmissible ==
  ASSUME NEW f \in SkillFile, NEW e, e.command \in Command, e.plain \in BOOLEAN
  PROVE  SafeToken(e.command) /\ AllowsCommand(f.commands, e.command) /\ e.plain <=> Admissible(e, f)
<1>1. f.commands \subseteq Command
  BY DEF SkillFile
<1>2. \A a \in f.commands :
        (IF a.dir = "" THEN a.base = e.command.base ELSE a = e.command)
        <=> (a.base = e.command.base /\ a.dir \in {"", e.command.dir})
  <2> SUFFICES ASSUME NEW a \in f.commands
               PROVE  (IF a.dir = "" THEN a.base = e.command.base ELSE a = e.command)
                      <=> (a.base = e.command.base /\ a.dir \in {"", e.command.dir})
    OBVIOUS
  <2>1. a \in Command
    BY <1>1
  <2>2. a.base = e.command.base /\ a.dir = e.command.dir => a = e.command
    BY <2>1 DEF Command
  <2> QED
    BY <2>2
<1> QED
  BY <1>2 DEF SafeToken, AllowsCommand, Admissible

LEMMA EntriesFacts ==
  ASSUME NEW json \in Sidecars
  PROVE  /\ Entries(json.toolbox) \subseteq ToolEntry /\ OneByName(Entries(json.toolbox))
         /\ Entries(json.mcp) \subseteq ServerEntry /\ OneByName(Entries(json.mcp))
         /\ (json.toolbox = Broken => Entries(json.toolbox) = {})
         /\ (json.toolbox # Broken => Entries(json.toolbox) = json.toolbox)
  BY SkillConstantsOK DEF SkillConstantsOK, Entries, OneByName

LEMMA LoadedFacts ==
  ASSUME NEW f \in Files, NEW json \in Sidecars, NEW cs, NEW x, x = LoadedSkill(f, json, cs)
  PROVE  /\ ToolsDeclared(x) /\ ServersDeclared(x)
         /\ x.name \in Nat /\ x.lazy \in BOOLEAN /\ x.available \in BOOLEAN
<1>1. PICK file \in SkillFile : file = Parsed(f) /\ OneByName(file.mcp) /\ OneByName(file.toolbox)
  BY ParsedFacts
<1>2. /\ x.name = file.name /\ x.lazy = file.lazy /\ x.available = (file.requires \subseteq cs)
      /\ x.servers = Merged(McpServers(file.mcp, file), McpServers(Entries(json.mcp), file))
      /\ x.toolboxes = Merged(FrontToolboxes(file), JsonToolboxes(json.toolbox, file))
      /\ x.read.file = file /\ x.read.json = json
  BY <1>1 DEF LoadedSkill
<1>3. x.name \in Nat /\ x.lazy \in BOOLEAN /\ x.available \in BOOLEAN
  BY <1>2 DEF SkillFile
<1>4. file.toolbox \subseteq ToolEntry /\ file.mcp \subseteq ServerEntry
  BY DEF SkillFile
<1>5. \A e \in ToolEntry : SafeToken(e.command) /\ AllowsCommand(file.commands, e.command) /\ e.plain
                           <=> Admissible(e, file)
  <2>1. \A e \in ToolEntry : e.command \in Command /\ e.plain \in BOOLEAN
    BY DEF ToolEntry
  <2> QED
    BY <2>1, AllowedIsAdmissible
<1>6. PICK J : J = Entries(json.toolbox) /\ J \subseteq ToolEntry /\ OneByName(J)
        /\ (json.toolbox = Broken => J = {}) /\ (json.toolbox # Broken => J = json.toolbox)
  BY EntriesFacts
<1>7. FrontToolboxes(file) = {Granted(e, file) : e \in {d \in file.toolbox : Admissible(d, file)}}
  BY <1>4, <1>5 DEF FrontToolboxes
<1>8. JsonToolboxes(json.toolbox, file) = {Granted(e, file) : e \in {d \in J : Admissible(d, file)}}
  BY <1>5, <1>6 DEF JsonToolboxes
<1>9. \A e : /\ Granted(e, file).name = e.name /\ Granted(e, file).command = e.command
             /\ Granted(e, file).network = (e.network \/ file.network)
             /\ Granted(e, file).commands = file.commands /\ Granted(e, file).env = file.env
  BY DEF Granted
<1>10. x.toolboxes = JsonToolboxes(json.toolbox, file)
         \cup {t \in FrontToolboxes(file) : \A j \in JsonToolboxes(json.toolbox, file) : j.name # t.name}
  BY <1>2 DEF Merged
<1>11. OneByName(x.toolboxes)
  <2>1. OneByName(FrontToolboxes(file))
    BY <1>1, <1>7, <1>9 DEF OneByName
  <2>2. OneByName(JsonToolboxes(json.toolbox, file))
    BY <1>6, <1>8, <1>9 DEF OneByName
  <2> QED
    BY <1>10, <2>1, <2>2 DEF OneByName
<1>12. ASSUME NEW t \in x.toolboxes
       PROVE  \E e \in {d \in file.toolbox \cup J : Declares(x, d)} :
                /\ e.name = t.name /\ e.command = t.command /\ (t.network <=> e.network \/ file.network)
                /\ t.commands = file.commands /\ t.env = file.env
  <2>1. CASE t \in JsonToolboxes(json.toolbox, file)
    <3>1. PICK e \in J : Admissible(e, file) /\ t = Granted(e, file)
      BY <1>8, <2>1
    <3>2. Declares(x, e)
      BY <1>2, <1>6, <3>1 DEF Declares
    <3> QED
      BY <1>9, <3>1, <3>2
  <2>2. CASE t \notin JsonToolboxes(json.toolbox, file)
    <3>1. t \in FrontToolboxes(file) /\ \A j \in JsonToolboxes(json.toolbox, file) : j.name # t.name
      BY <1>10, <2>2
    <3>2. PICK e \in file.toolbox : Admissible(e, file) /\ t = Granted(e, file)
      BY <1>7, <3>1
    <3>3. ~ \E j \in J : j.name = e.name /\ Admissible(j, file)
      BY <1>8, <1>9, <3>1, <3>2
    <3>4. Declares(x, e)
      BY <1>2, <1>6, <3>2, <3>3 DEF Declares
    <3> QED
      BY <1>9, <3>2, <3>4
  <2> QED
    BY <2>1, <2>2
<1>13. ASSUME NEW e \in file.toolbox, Admissible(e, file) PROVE \E t \in x.toolboxes : t.name = e.name
  <2>1. Granted(e, file) \in FrontToolboxes(file) /\ Granted(e, file).name = e.name
    BY <1>7, <1>9, <1>13
  <2> QED
    BY <1>10, <2>1
<1>14. ToolsDeclared(x)
  BY <1>2, <1>6, <1>11, <1>12, <1>13 DEF ToolsDeclared
<1>15. ServersDeclared(x)
  <2> SUFFICES ASSUME NEW t \in x.servers
               PROVE  \E e \in file.mcp \cup Entries(json.mcp) :
                        /\ e.name = t.name /\ e.command = t.command
                        /\ Admissible(e, file)
                        /\ e.command.dir = "" => e.command.base \in Runners
    BY <1>2 DEF ServersDeclared
  <2>1. t \in McpServers(file.mcp, file) \/ t \in McpServers(Entries(json.mcp), file)
    BY <1>2 DEF Merged
  <2>2. PICK e \in file.mcp \cup Entries(json.mcp) :
          /\ SafeMcp(e.command) /\ AllowsCommand(file.commands, e.command) /\ e.plain
          /\ t = [name |-> e.name, command |-> e.command]
    BY <2>1 DEF McpServers
  <2>3. e \in ServerEntry
    BY <1>4, EntriesFacts
  <2>4. Admissible(e, file)
    <3>1. e.command \in Command /\ e.plain \in BOOLEAN
      BY <2>3 DEF ServerEntry
    <3>2. SafeToken(e.command)
      BY <2>2 DEF SafeMcp
    <3> QED
      BY <2>2, <3>1, <3>2, AllowedIsAdmissible
  <2> QED
    BY <2>2, <2>4 DEF SafeMcp
<1> QED
  BY <1>3, <1>14, <1>15

LEMMA SkillFacts ==
  ASSUME NEW x \in Skill
  PROVE  /\ ToolsDeclared(x) /\ ServersDeclared(x)
         /\ x.name \in Nat /\ x.lazy \in BOOLEAN /\ x.available \in BOOLEAN
<1>1. PICK f \in Files, json \in Sidecars, cs \in SUBSET Commands : x = LoadedSkill(f, json, cs)
  BY DEF Skill
<1> QED
  BY <1>1, LoadedFacts

-----------------------------------------------------------------------------
(* What a message brings along.                                            *)

LEMMA ToolsAreMatched ==
  ASSUME NEW skills \in Seq(Skill), NEW message
  PROVE  ToolsAreGranted(MatchSkillToolboxes(skills, message), skills, message)
<1>1. PICK N \in Nat : N = Len(skills) /\ DOMAIN skills = 1..N
  OBVIOUS
<1>2. \A i \in 1..N : skills[i] \in Skill /\ ToolsDeclared(skills[i])
  BY <1>1, SkillFacts
<1> DEFINE Offers(i) == Triggered(skills[i], message) /\ ~ skills[i].lazy
<1>3. PICK on : on = [i \in 1..N |-> Offers(i)]
  OBVIOUS
<1>4. PICK more : more = [i \in 1..N |-> skills[i].toolboxes]
  OBVIOUS
<1>5. Len(more) = N /\ \A i \in 1..N : OneByName(more[i])
  BY <1>2, <1>4 DEF ToolsDeclared
<1>6. PICK tools : tools = MatchSkillToolboxes(skills, message) /\ tools = Gathered(on, more)[N]
  BY <1>1, <1>3, <1>4 DEF MatchSkillToolboxes
<1>7. FirstWins(on, more, N, tools)
  BY <1>5, <1>6, GatheredFacts
<1>8. \A i \in 1..N : on[i] = Offers(i) /\ more[i] = skills[i].toolboxes
  BY <1>3, <1>4
<1>9. ASSUME NEW t \in tools
      PROVE  \E i \in 1..N :
               /\ Offers(i)
               /\ \E e \in {d \in skills[i].read.file.toolbox \cup Entries(skills[i].read.json.toolbox) : Declares(skills[i], d)} :
                    e.name = t.name /\ e.command = t.command /\ (t.network <=> e.network \/ skills[i].read.file.network)
               /\ t.commands = skills[i].read.file.commands /\ t.env = skills[i].read.file.env
               /\ \A j \in 1..(i - 1) : Offers(j) => t.name \notin {x.name : x \in skills[j].toolboxes}
  <2>1. PICK i \in 1..N :
          /\ on[i] /\ t \in more[i]
          /\ \A j \in 1..(i - 1) : on[j] => \A u \in more[j] : u.name # t.name
    BY <1>7 DEF FirstWins
  <2>2. Offers(i) /\ t \in skills[i].toolboxes
    BY <1>8, <2>1
  <2>3. \A j \in 1..(i - 1) : Offers(j) => t.name \notin {x.name : x \in skills[j].toolboxes}
    <3>1. \A j \in 1..(i - 1) : j \in 1..N
      OBVIOUS
    <3> QED
      BY <1>8, <2>1, <3>1
  <2> HIDE DEF Offers
  <2> QED
    BY <1>2, <2>2, <2>3 DEF ToolsDeclared
<1>10. ASSUME NEW i \in 1..N, Offers(i),
              NEW e \in skills[i].read.file.toolbox, Admissible(e, skills[i].read.file)
       PROVE  e.name \in {t.name : t \in tools}
  <2>1. PICK t \in skills[i].toolboxes : t.name = e.name
    BY <1>2, <1>10 DEF ToolsDeclared
  <2>2. on[i] /\ t \in more[i]
    BY <1>8, <1>10, <2>1
  <2>3. \E u \in tools : u.name = t.name
    BY <1>7, <2>2 DEF FirstWins
  <2> QED
    BY <2>1, <2>3
<1>11. OneByName(tools)
  BY <1>7 DEF FirstWins
<1> QED
  BY <1>1, <1>6, <1>9, <1>10, <1>11 DEF ToolsAreGranted

LEMMA ServersAreMatched ==
  ASSUME NEW skills \in Seq(Skill), NEW message
  PROVE  ServersAreGranted(MatchSkillTriggers(skills, message), skills, message)
<1>1. PICK N \in Nat : N = Len(skills) /\ DOMAIN skills = 1..N
  OBVIOUS
<1>2. \A i \in 1..N : skills[i] \in Skill /\ ServersDeclared(skills[i])
  BY <1>1, SkillFacts
<1>3. PICK on : on = [i \in 1..N |-> Triggered(skills[i], message)]
  OBVIOUS
<1>4. PICK more : more = [i \in 1..N |-> skills[i].servers]
  OBVIOUS
<1>5. Len(more) = N
  BY <1>4
<1>6. PICK f : f = Gathered(on, more) /\ Gathers(f, on, more, N)
  BY <1>5, GatheredIs
<1>7. MatchSkillTriggers(skills, message) = f[N]
  BY <1>1, <1>3, <1>4, <1>6 DEF MatchSkillTriggers
<1> DEFINE From(n) == \A t \in f[n] : \E i \in 1..n : on[i] /\ t \in more[i]
<1> DEFINE T == {n \in Nat : n \in 0..N /\ ~ From(n)}
<1>8. T = {}
  <2> SUFFICES ASSUME T # {} PROVE FALSE
    OBVIOUS
  <2>1. PICK k \in T : \A l \in T : ~ (l < k)
    BY LeastOf
  <2>2. CASE k = 0
    BY <1>6, <2>2 DEF Gathers
  <2>3. CASE k # 0
    <3>1. k - 1 \in Nat /\ k - 1 \in 0..N /\ k - 1 < k /\ k \in 0..N /\ k \in 1..k
      BY <2>3
    <3>2. From(k - 1)
      BY <2>1, <3>1
    <3>3. f[k] = IF on[k] THEN Adds(f[k - 1], more[k]) ELSE f[k - 1]
      BY <1>6, <2>3, <3>1 DEF Gathers
    <3>4. \A i \in 1..(k - 1) : i \in 1..k
      OBVIOUS
    <3>5. ASSUME NEW t \in f[k] PROVE \E i \in 1..k : on[i] /\ t \in more[i]
      <4>1. t \in f[k - 1] \/ (on[k] /\ t \in more[k])
        BY <3>3 DEF Adds
      <4> QED
        BY <3>1, <3>2, <3>4, <4>1
    <3> QED
      BY <3>5
  <2> QED
    BY <2>2, <2>3
<1>9. From(N)
  <2>1. N \in 0..N
    OBVIOUS
  <2> QED
    BY <1>8, <2>1
<1>10. ASSUME NEW t \in f[N]
       PROVE  \E i \in 1..N : Triggered(skills[i], message) /\ t \in skills[i].servers
  BY <1>3, <1>4, <1>9
<1> HIDE DEF From, T
<1>11. ASSUME NEW t \in f[N]
       PROVE  \E i \in DOMAIN skills :
                LET file == skills[i].read.file IN
                /\ Triggered(skills[i], message)
                /\ \E e \in file.mcp \cup Entries(skills[i].read.json.mcp) :
                     /\ e.name = t.name /\ e.command = t.command
                     /\ Admissible(e, file)
                     /\ e.command.dir = "" => e.command.base \in Runners
  <2>1. PICK i \in 1..N : Triggered(skills[i], message) /\ t \in skills[i].servers
    BY <1>10
  <2>2. PICK x : x = skills[i]
    OBVIOUS
  <2>3. ServersDeclared(x) /\ t \in x.servers
    BY <1>2, <2>1, <2>2
  <2>4. \E e \in x.read.file.mcp \cup Entries(x.read.json.mcp) :
          /\ e.name = t.name /\ e.command = t.command
          /\ Admissible(e, x.read.file)
          /\ e.command.dir = "" => e.command.base \in Runners
    BY <2>3 DEF ServersDeclared
  <2> QED
    BY <1>1, <2>1, <2>2, <2>4, Zenon
<1> QED
  BY <1>7, <1>11 DEF ServersAreGranted

LEMMA OffersHaveTakers == ASSUME NEW tools, NEW servers PROVE OffersAreAnswered(tools, servers)
<1> SUFFICES ASSUME NEW up \in SUBSET servers, NEW o \in AllToolDefs(tools, up)
             PROVE  LET alike == {other.by : other \in {x \in AllToolDefs(tools, up) : Lower(x.name) = Lower(o.name)}}
                        runs  == Dispatch(o.name, tools, up)
                    IN  /\ runs # {} /\ runs \subseteq alike
                        /\ o.by = BuiltIn => runs = {BuiltIn}
                        /\ o.by = FromToolbox => runs \subseteq {BuiltIn, FromToolbox}
  BY DEF OffersAreAnswered
<1> DEFINE offers == AllToolDefs(tools, up)
           alike  == {other.by : other \in {x \in offers : Lower(x.name) = Lower(o.name)}}
           runs   == Dispatch(o.name, tools, up)
<1>1. \A n \in BuiltinToolDefs : Lower(n) = n
  BY StartupConstantsOK DEF StartupConstantsOK, Lower
<1>2. \A x : x \in offers <=>
         \/ \E n \in BuiltinToolDefs : x = [name |-> n, by |-> BuiltIn]
         \/ \E t \in tools : x = [name |-> t.name, by |-> FromToolbox]
         \/ \E s \in up : \E n \in ServerTools[s.name] : x = [name |-> n, by |-> FromServer(s.name)]
  BY DEF AllToolDefs, Offer
<1>3. BuiltIn # FromToolbox /\ \A s : FromServer(s) # BuiltIn /\ FromServer(s) # FromToolbox
  BY DEF BuiltIn, FromToolbox, FromServer
<1>4. CASE Lower(o.name) \in BuiltinToolDefs
  <2>1. runs = {BuiltIn}
    BY <1>4 DEF Dispatch
  <2>2. PICK x \in offers : x = [name |-> Lower(o.name), by |-> BuiltIn]
    BY <1>2, <1>4
  <2>3. Lower(x.name) = Lower(o.name) /\ x.by = BuiltIn
    BY <1>1, <1>4, <2>2
  <2>4. BuiltIn \in alike
    BY <2>3
  <2> QED
    BY <2>1, <2>4
<1>5. CASE Lower(o.name) \notin BuiltinToolDefs /\ \E t \in tools : t.name = o.name
  <2>1. runs = {FromToolbox}
    BY <1>5 DEF Dispatch
  <2>2. PICK x \in offers : x = [name |-> o.name, by |-> FromToolbox]
    BY <1>2, <1>5
  <2>3. FromToolbox \in alike
    BY <2>2
  <2>4. o.by # BuiltIn
    BY <1>1, <1>2, <1>3, <1>5
  <2> QED
    BY <2>1, <2>3, <2>4
<1>6. CASE Lower(o.name) \notin BuiltinToolDefs /\ ~ \E t \in tools : t.name = o.name
  <2>1. runs = {FromServer(s.name) : s \in {server \in up : o.name \in ServerTools[server.name]}}
    BY <1>6 DEF Dispatch, McpToolMap
  <2>2. PICK s \in up : \E n \in ServerTools[s.name] : o = [name |-> n, by |-> FromServer(s.name)]
    BY <1>1, <1>2, <1>6
  <2>3. runs # {}
    BY <2>1, <2>2
  <2>4. ASSUME NEW r \in runs PROVE r \in alike
    <3>1. PICK server \in up : o.name \in ServerTools[server.name] /\ r = FromServer(server.name)
      BY <2>1, <2>4
    <3>2. PICK x \in offers : x = [name |-> o.name, by |-> FromServer(server.name)]
      BY <1>2, <3>1
    <3> QED
      BY <3>1, <3>2
  <2>5. o.by # BuiltIn /\ o.by # FromToolbox
    BY <1>3, <2>2
  <2> QED
    BY <2>3, <2>4, <2>5
<1> QED
  BY <1>4, <1>5, <1>6

LEMMA SearchFinds ==
  ASSUME NEW skills \in Seq(Skill), NEW name \in LazySkillDirectory(skills)
  PROVE  \E i, j \in DOMAIN skills :
           /\ skills[i].lazy /\ skills[i].available
           /\ GetToolboxesForSkill(skills, name) = skills[j].toolboxes
           /\ j = i \/ (j < i /\ skills[j].name = skills[i].name)
<1>1. PICK i \in DOMAIN skills : skills[i].lazy /\ skills[i].available /\ skills[i].name = name
  BY DEF LazySkillDirectory
<1>2. PICK named : named = {k \in DOMAIN skills : skills[k].name = name}
  OBVIOUS
<1>3. named \subseteq Nat /\ i \in named /\ named # {} /\ named \subseteq DOMAIN skills
  BY <1>1, <1>2
<1>4. PICK k \in named : \A l \in named : ~ (l < k)
  BY <1>3, LeastOf
<1>5. \A l \in named : k <= l
  BY <1>3, <1>4
<1>6. PICK j : j = Min(named) /\ j \in named /\ \A l \in named : j <= l
  BY <1>5 DEF Min
<1>7. GetToolboxesForSkill(skills, name) = skills[j].toolboxes
  BY <1>2, <1>3, <1>6 DEF GetToolboxesForSkill
<1>8. j \in DOMAIN skills /\ skills[j].name = name /\ (j = i \/ j < i)
  <2>1. j \in Nat /\ i \in Nat /\ j <= i
    BY <1>3, <1>6
  <2> QED
    BY <1>2, <1>6, <2>1
<1> QED
  BY <1>1, <1>7, <1>8

-----------------------------------------------------------------------------
(* The hosts and the directory.                                            *)

Ats == {"off", "configured", "migrate", "make", "move", "migrated", "dir", "store", "load", "loaded", "ready"}

Host == [at : Ats, todo : SUBSET Stems, stem : Stems \cup {""}, skills : Seq(Skill)]

DiskInv ==
  /\ flat \in [Stems -> Files \cup {NoFile}]
  /\ dirs \in SUBSET Stems
  /\ skillFile \in [Stems -> Files \cup {NoFile}]
  /\ sidecar \in [Stems -> Sidecars]
  /\ installed \in SUBSET Commands
  /\ \A s \in Stems \ dirs : skillFile[s] = NoFile

(* Where the host d is about to move a flat file, there is no skill file,  *)
(* or one that was installed since its look, or no flat file any more:     *)
(* another host has moved it.                                              *)
Moving(d) ==
  /\ d.at \in {"make", "move"} =>
       d.stem \in Stems /\ (skillFile[d.stem] = NoFile \/ flat[d.stem] = NoFile \/ d.stem \in raced)
  /\ d.at = "move" => d.stem \in dirs

(* The request r of the host d, which is ready when it has one.            *)
Right(r, d) ==
  r # NoValue =>
    /\ r = [message |-> r.message, model |-> r.model, servers |-> r.servers,
            toolboxes |-> r.toolboxes, deferred |-> r.deferred]
    /\ d.at = "ready"
    /\ ToolsAreGranted(r.toolboxes, d.skills, r.message)
    /\ ServersAreGranted(r.servers, d.skills, r.message)
    /\ OffersAreAnswered(r.toolboxes, r.servers)
    /\ r.deferred # {} =>
         \E i, j \in DOMAIN d.skills :
           /\ d.skills[i].lazy /\ d.skills[i].available
           /\ r.deferred = d.skills[j].toolboxes
           /\ j = i \/ (j < i /\ d.skills[j].name = d.skills[i].name)

StartInv ==
  /\ DiskInv
  /\ proc \in [Hosts -> Host]
  /\ request = [h \in Hosts |-> request[h]]
  /\ \A h \in Hosts : Moving(proc[h])
  /\ \A h \in Hosts : Right(request[h], proc[h])

LEMMA OffIsHost == Off \in Host /\ Off.at = "off" /\ Off.skills = << >>
<1>1. << >> \in Seq(Skill) /\ {} \in SUBSET Stems /\ "" \in Stems \cup {""} /\ "off" \in Ats
  BY DEF Ats
<1> QED
  BY <1>1 DEF Off, Host

LEMMA StartInitInv == StartInit => StartInv
<1> SUFFICES ASSUME StartInit PROVE StartInv
  OBVIOUS
<1>1. DiskInv
  BY DEF StartInit, SkillsInit, DiskInv
<1>2. proc = [h \in Hosts |-> Off] /\ request = [h \in Hosts |-> NoValue]
  BY DEF StartInit
<1>3. \A h \in Hosts : proc[h] = Off /\ request[h] = NoValue
  BY <1>2
<1>4. proc \in [Hosts -> Host]
  BY <1>2, OffIsHost
<1>5. request = [h \in Hosts |-> request[h]]
  BY <1>2
<1>6. \A h \in Hosts : Moving(proc[h]) /\ Right(request[h], proc[h])
  BY <1>3, OffIsHost DEF Moving, Right
<1> QED
  BY <1>1, <1>4, <1>5, <1>6 DEF StartInv

(* A step of one host that has no request yet.                             *)
LEMMA HostSteps ==
  ASSUME StartInv, NEW h \in Hosts, NEW d \in Host,
         proc' = [proc EXCEPT ![h] = d], request' = request, proc[h].at # "ready",
         DiskInv', Moving(d)',
         \A e \in Host : e \in {proc[x] : x \in Hosts \ {h}} => Moving(e)'
  PROVE  StartInv'
<1>1. proc \in [Hosts -> Host] /\ proc' \in [Hosts -> Host]
  BY DEF StartInv
<1>2. proc'[h] = d /\ \A x \in Hosts \ {h} : proc'[x] = proc[x]
  BY <1>1
<1>3. ASSUME NEW x \in Hosts PROVE Moving(proc[x])'
  <2>1. CASE x = h
    BY <1>2, <2>1 DEF Moving
  <2>2. CASE x # h
    <3>1. PICK e \in Host : e = proc[x] /\ e = proc'[x]
      BY <1>1, <1>2, <2>2
    <3>2. Moving(e)'
      BY <2>2, <3>1
    <3> QED
      BY <3>1, <3>2 DEF Moving
  <2> QED
    BY <2>1, <2>2
<1>4. ASSUME NEW x \in Hosts PROVE Right(request[x], proc[x])'
  <2>1. CASE x = h
    <3>1. request[h] = NoValue
      BY DEF StartInv, Right
    <3> QED
      BY <2>1, <3>1 DEF Right
  <2>2. CASE x # h
    <3>1. Right(request[x], proc[x])
      BY DEF StartInv
    <3> QED
      BY <1>2, <2>2, <3>1 DEF Right
  <2> QED
    BY <2>1, <2>2
<1> QED
  BY <1>1, <1>3, <1>4 DEF StartInv

(* The same, when the directory stays.                                     *)
LEMMA HostMoves ==
  ASSUME StartInv, NEW h \in Hosts, NEW d \in Host,
         proc' = [proc EXCEPT ![h] = d], request' = request, proc[h].at # "ready",
         UNCHANGED <<disk, raced, installed>>, Moving(d)
  PROVE  StartInv'
<1>1. DiskInv' /\ Moving(d)'
  BY DEF StartInv, DiskInv, Moving, disk
<1>2. ASSUME NEW e \in Host, e \in {proc[x] : x \in Hosts \ {h}} PROVE Moving(e)'
  <2>1. Moving(e)
    BY <1>2 DEF StartInv
  <2> QED
    BY <2>1 DEF Moving, disk
<1> QED
  BY <1>1, <1>2, HostSteps

LEMMA HostGoes ==
  ASSUME StartInv, NEW h \in Hosts, NEW at \in Ats \ {"make", "move"},
         proc' = [proc EXCEPT ![h].at = at], request' = request, proc[h].at # "ready",
         UNCHANGED <<disk, raced, installed>>
  PROVE  StartInv'
<1>1. proc[h] \in Host
  BY DEF StartInv
<1>2. PICK d : d = [proc[h] EXCEPT !.at = at]
  OBVIOUS
<1>3. d \in Host /\ d.at = at
  BY <1>1, <1>2 DEF Host
<1>4. Moving(d)
  BY <1>3 DEF Moving
<1>5. proc' = [proc EXCEPT ![h] = d]
  BY <1>2
<1> QED
  BY <1>3, <1>4, <1>5, HostMoves

LEMMA MigrateListKeeps == ASSUME StartInv, NEW h \in Hosts, MigrateList(h), request' = request PROVE StartInv'
<1>1. proc[h] \in Host
  BY DEF StartInv
<1>2. PICK todo \in SUBSET Stems : todo = {s \in Stems : flat[s] # NoFile}
  OBVIOUS
<1>3. PICK d : d = [proc[h] EXCEPT !.at = "migrate", !.todo = todo]
  OBVIOUS
<1>4. d \in Host /\ d.at = "migrate"
  BY <1>1, <1>3 DEF Host, Ats
<1>5. Moving(d)
  BY <1>4 DEF Moving
<1>6. proc' = [proc EXCEPT ![h] = d]
  BY <1>2, <1>3 DEF MigrateList
<1>7. proc[h].at # "ready" /\ UNCHANGED <<disk, raced, installed>>
  BY DEF MigrateList, At
<1> QED
  BY <1>4, <1>5, <1>6, <1>7, HostMoves

LEMMA MigrateCheckKeeps ==
  ASSUME StartInv, NEW h \in Hosts, NEW s \in Stems, MigrateCheck(h, s), request' = request
  PROVE  StartInv'
<1>1. proc[h] \in Host
  BY DEF StartInv
<1>2. PICK at \in {"migrate", "make"} : at = IF s \in dirs THEN "migrate" ELSE "make"
  OBVIOUS
<1>3. PICK d : d = [proc[h] EXCEPT !.todo = @ \ {s}, !.stem = s, !.at = at]
  OBVIOUS
<1>4. d \in Host /\ d.at = at /\ d.stem = s
  BY <1>1, <1>3 DEF Host, Ats
<1>5. Moving(d)
  <2>1. s \notin dirs => skillFile[s] = NoFile
    BY DEF StartInv, DiskInv
  <2> QED
    BY <1>2, <1>4, <2>1 DEF Moving
<1>6. proc' = [proc EXCEPT ![h] = d]
  BY <1>2, <1>3 DEF MigrateCheck
<1>7. proc[h].at # "ready" /\ UNCHANGED <<disk, raced, installed>>
  BY DEF MigrateCheck, At
<1> QED
  BY <1>4, <1>5, <1>6, <1>7, HostMoves

LEMMA MigrateMakeKeeps == ASSUME StartInv, NEW h \in Hosts, MigrateMake(h), request' = request PROVE StartInv'
<1>1. proc[h] \in Host /\ Moving(proc[h]) /\ proc[h].at = "make"
  BY DEF StartInv, MigrateMake, At
<1>2. UNCHANGED <<flat, skillFile, sidecar, installed, raced>>
  BY DEF MigrateMake
<1>3. CASE dirs' = dirs \cup {proc[h].stem} /\ proc' = [proc EXCEPT ![h].at = "move"]
  <2>1. PICK d : d = [proc[h] EXCEPT !.at = "move"]
    OBVIOUS
  <2>2. d \in Host /\ d.at = "move" /\ d.stem = proc[h].stem
    BY <1>1, <2>1 DEF Host, Ats
  <2>3. Moving(d)'
    BY <1>1, <1>2, <1>3, <2>2 DEF Moving
  <2>4. DiskInv'
    <3>1. proc[h].stem \in Stems
      BY <1>1 DEF Moving
    <3> QED
      BY <1>2, <1>3, <3>1 DEF StartInv, DiskInv
  <2>5. ASSUME NEW e \in Host, e \in {proc[x] : x \in Hosts \ {h}} PROVE Moving(e)'
    <3>1. Moving(e)
      BY <2>5 DEF StartInv
    <3> QED
      BY <1>2, <1>3, <3>1 DEF Moving
  <2>6. proc' = [proc EXCEPT ![h] = d]
    BY <1>3, <2>1
  <2> QED
    BY <1>1, <2>2, <2>3, <2>4, <2>5, <2>6, HostSteps
<1>4. CASE UNCHANGED dirs /\ proc' = [proc EXCEPT ![h].at = "migrate"]
  BY <1>1, <1>2, <1>4, HostGoes DEF disk, Ats
<1> QED
  BY <1>3, <1>4 DEF MigrateMake

LEMMA MigrateMoveKeeps == ASSUME StartInv, NEW h \in Hosts, MigrateMove(h), request' = request PROVE StartInv'
<1>1. proc[h] \in Host /\ Moving(proc[h]) /\ proc[h].at = "move"
  BY DEF StartInv, MigrateMove, At
<1>2. PICK s \in Stems : s = proc[h].stem /\ s \in dirs
  BY <1>1 DEF Moving
<1>3. proc' = [proc EXCEPT ![h].at = "migrate"] /\ UNCHANGED <<dirs, sidecar, installed, raced>>
  BY DEF MigrateMove
<1>4. CASE flat[s] # NoFile /\ skillFile' = [skillFile EXCEPT ![s] = flat[s]] /\ flat' = [flat EXCEPT ![s] = NoFile]
  <2>1. PICK d : d = [proc[h] EXCEPT !.at = "migrate"]
    OBVIOUS
  <2>2. d \in Host /\ d.at = "migrate"
    BY <1>1, <2>1 DEF Host, Ats
  <2>3. Moving(d)'
    BY <2>2 DEF Moving
  <2>4. flat \in [Stems -> Files \cup {NoFile}] /\ skillFile \in [Stems -> Files \cup {NoFile}]
    BY DEF StartInv, DiskInv
  <2>5. /\ flat' \in [Stems -> Files \cup {NoFile}] /\ skillFile' \in [Stems -> Files \cup {NoFile}]
        /\ flat'[s] = NoFile
        /\ \A x \in Stems \ {s} : flat'[x] = flat[x] /\ skillFile'[x] = skillFile[x]
    BY <1>4, <2>4
  <2>6. DiskInv'
    BY <1>2, <1>3, <2>5 DEF StartInv, DiskInv
  <2>7. ASSUME NEW e \in Host, e \in {proc[x] : x \in Hosts \ {h}} PROVE Moving(e)'
    <3>1. Moving(e)
      BY <2>7 DEF StartInv
    <3> QED
      BY <1>3, <2>5, <3>1 DEF Moving
  <2>8. proc' = [proc EXCEPT ![h] = d]
    BY <1>3, <2>1
  <2> QED
    BY <1>1, <2>2, <2>3, <2>6, <2>7, <2>8, HostSteps
<1>5. CASE UNCHANGED <<skillFile, flat>>
  BY <1>1, <1>3, <1>5, HostGoes DEF disk, Ats
<1> QED
  BY <1>2, <1>4, <1>5 DEF MigrateMove

LEMMA LoadListKeeps == ASSUME StartInv, NEW h \in Hosts, LoadList(h), request' = request PROVE StartInv'
<1>1. proc[h] \in Host /\ dirs \in SUBSET Stems
  BY DEF StartInv, DiskInv
<1>2. PICK d : d = [proc[h] EXCEPT !.at = "load", !.skills = << >>, !.todo = dirs \ Outside]
  OBVIOUS
<1>3. d \in Host /\ d.at = "load"
  <2>1. << >> \in Seq(Skill)
    OBVIOUS
  <2> QED
    BY <1>1, <1>2, <2>1 DEF Host, Ats
<1>4. Moving(d)
  BY <1>3 DEF Moving
<1>5. proc' = [proc EXCEPT ![h] = d]
  BY <1>2 DEF LoadList
<1>6. proc[h].at # "ready" /\ UNCHANGED <<disk, raced, installed>>
  BY DEF LoadList, At
<1> QED
  BY <1>3, <1>4, <1>5, <1>6, HostMoves

LEMMA OrderedInsertion == ASSUME NEW skills \in Seq(Skill), NEW x \in Skill PROVE InOrder(skills, x) \in Seq(Skill)
<1>1. PICK N \in Nat : N = Len(skills) /\ DOMAIN skills = 1..N
  OBVIOUS
<1>2. PICK T \in SUBSET (1..N) : T = {i \in DOMAIN skills : skills[i].name <= x.name}
  BY <1>1
<1>3. PICK k \in 0..N : k = Cardinality(T)
  <2>1. IsFiniteSet(1..N) /\ Cardinality(1..N) = N
    BY FS_Interval
  <2>2. IsFiniteSet(T) /\ Cardinality(T) <= N
    BY <2>1, FS_Subset
  <2>3. Cardinality(T) \in Nat
    BY <2>2, FS_CardinalityType
  <2> QED
    BY <2>2, <2>3
<1>4. SubSeq(skills, 1, k) \in Seq(Skill)
  BY <1>1, <1>3, SubSeqProperties
<1>5. SubSeq(skills, k + 1, N) \in Seq(Skill)
  BY <1>1, <1>3, SubSeqProperties
<1>6. <<x>> \in Seq(Skill)
  OBVIOUS
<1>7. SubSeq(skills, 1, k) \o <<x>> \in Seq(Skill)
  BY <1>4, <1>6, ConcatProperties
<1>8. (SubSeq(skills, 1, k) \o <<x>>) \o SubSeq(skills, k + 1, N) \in Seq(Skill)
  BY <1>5, <1>7, ConcatProperties
<1>9. (k + 1) - 1 = k
  BY <1>3
<1>10. InsertAt(skills, k + 1, x) = (SubSeq(skills, 1, k) \o <<x>>) \o SubSeq(skills, k + 1, N)
  BY <1>1, <1>9, Zenon DEF InsertAt
<1>11. InOrder(skills, x) = InsertAt(skills, k + 1, x)
  BY <1>2, <1>3, Zenon DEF InOrder
<1> QED
  BY <1>8, <1>10, <1>11

LEMMA LoadEntryKeeps ==
  ASSUME StartInv, NEW h \in Hosts, NEW s \in Stems, LoadEntry(h, s), request' = request
  PROVE  StartInv'
<1>1. proc[h] \in Host
  BY DEF StartInv
<1>2. PICK skills \in Seq(Skill) :
        skills = IF Parses(skillFile[s])
                 THEN InOrder(proc[h].skills, LoadedSkill(skillFile[s], sidecar[s], installed))
                 ELSE proc[h].skills
  <2>1. proc[h].skills \in Seq(Skill)
    BY <1>1 DEF Host
  <2>2. CASE Parses(skillFile[s])
    <3>1. skillFile[s] \in Files /\ sidecar[s] \in Sidecars /\ installed \in SUBSET Commands
      BY <2>2 DEF Parses, StartInv, DiskInv
    <3>2. LoadedSkill(skillFile[s], sidecar[s], installed) \in Skill
      BY <3>1 DEF Skill
    <3> QED
      BY <2>1, <2>2, <3>2, OrderedInsertion
  <2> QED
    BY <2>1, <2>2
<1>3. PICK d : d = [proc[h] EXCEPT !.todo = @ \ {s}, !.skills = skills]
  OBVIOUS
<1>4. d \in Host /\ d.at = proc[h].at
  BY <1>1, <1>3 DEF Host
<1>5. proc[h].at = "load" /\ UNCHANGED <<disk, raced, installed>>
  BY DEF LoadEntry, At
<1>6. Moving(d)
  BY <1>4, <1>5 DEF Moving
<1>7. proc' = [proc EXCEPT ![h] = d]
  BY <1>2, <1>3 DEF LoadEntry
<1> QED
  BY <1>4, <1>5, <1>6, <1>7, HostMoves

(* Others install skills and commands.                                     *)
LEMMA InstallSkillKeeps ==
  ASSUME StartInv, NEW s \in Stems, NEW bundle \in Bundles, InstallSkill(s, bundle), request' = request
  PROVE  StartInv'
<1>1. bundle.file \in Files /\ bundle.json \in Sidecars
  BY SkillConstantsOK DEF SkillConstantsOK
<1>2. /\ skillFile' = [skillFile EXCEPT ![s] = bundle.file] /\ sidecar' = [sidecar EXCEPT ![s] = bundle.json]
      /\ dirs' = dirs \cup {s} /\ UNCHANGED <<flat, installed, proc>>
      /\ raced \subseteq raced'
  BY DEF InstallSkill
<1>3. skillFile \in [Stems -> Files \cup {NoFile}] /\ sidecar \in [Stems -> Sidecars]
  BY DEF StartInv, DiskInv
<1>4. /\ skillFile' \in [Stems -> Files \cup {NoFile}] /\ sidecar' \in [Stems -> Sidecars]
      /\ \A x \in Stems \ {s} : skillFile'[x] = skillFile[x]
  BY <1>1, <1>2, <1>3
<1>5. DiskInv'
  BY <1>2, <1>4 DEF StartInv, DiskInv
<1>6. ASSUME NEW h \in Hosts PROVE Moving(proc[h])'
  <2>1. Moving(proc[h])
    BY DEF StartInv
  <2>2. proc[h].at \in {"make", "move"} => proc[h].stem # s \/ s \in raced'
    BY DEF InstallSkill, BeingMigrated
  <2> QED
    BY <1>2, <1>4, <2>1, <2>2 DEF Moving
<1>7. \A h \in Hosts : Right(request[h], proc[h])'
  BY <1>2 DEF StartInv, Right
<1> QED
  BY <1>2, <1>5, <1>6, <1>7 DEF StartInv

LEMMA InstallCommandKeeps ==
  ASSUME StartInv, NEW c \in Commands, InstallCommand(c), request' = request
  PROVE  StartInv'
<1>1. installed' = installed \cup {c} /\ UNCHANGED <<disk, proc, raced>>
  BY DEF InstallCommand
<1>2. DiskInv'
  BY <1>1 DEF StartInv, DiskInv, disk
<1>3. \A h \in Hosts : Moving(proc[h])'
  BY <1>1 DEF StartInv, Moving, disk
<1>4. \A h \in Hosts : Right(request[h], proc[h])'
  BY <1>1 DEF StartInv, Right
<1> QED
  BY <1>1, <1>2, <1>3, <1>4 DEF StartInv

(* A host that is ready asks its provider, and looks up deferred tools.    *)
LEMMA RequestChanges ==
  ASSUME StartInv, NEW h \in Hosts, NEW r, request' = [request EXCEPT ![h] = r], Right(r, proc[h]),
         UNCHANGED <<skillVars>>
  PROVE  StartInv'
<1>1. UNCHANGED <<disk, raced, installed, proc>>
  BY DEF skillVars
<1>2. DiskInv'
  BY <1>1 DEF StartInv, DiskInv, disk
<1>3. \A x \in Hosts : Moving(proc[x])'
  BY <1>1 DEF StartInv, Moving, disk
<1>4. request'[h] = r /\ (\A x \in Hosts \ {h} : request'[x] = request[x]) /\ request' = [x \in Hosts |-> request'[x]]
  BY DEF StartInv
<1>5. ASSUME NEW x \in Hosts PROVE Right(request[x], proc[x])'
  <2>1. CASE x = h
    BY <1>1, <1>4, <2>1 DEF Right
  <2>2. CASE x # h
    BY <1>1, <1>4, <2>2 DEF StartInv, Right
  <2> QED
    BY <2>1, <2>2
<1> QED
  BY <1>1, <1>2, <1>3, <1>4, <1>5 DEF StartInv

LEMMA TurnKeeps == ASSUME StartInv, NEW h \in Hosts, NEW message, Turn(h, message) PROVE StartInv'
<1>1. PICK skills \in Seq(Skill) : skills = proc[h].skills
  BY DEF StartInv, Host
<1>2. PICK model : model = IF ModelOverride(skills) = NoModel THEN provider[h].model ELSE ModelOverride(skills)
  OBVIOUS
<1> DEFINE r == [ message   |-> message, model |-> model,
                  servers   |-> MatchSkillTriggers(skills, message),
                  toolboxes |-> MatchSkillToolboxes(skills, message),
                  deferred  |-> {} ]
<1>0. request' = [request EXCEPT ![h] = r]
  BY <1>1, <1>2, Zenon DEF Turn
<1>3. /\ r.message = message /\ r.deferred = {}
      /\ r.servers = MatchSkillTriggers(skills, message) /\ r.toolboxes = MatchSkillToolboxes(skills, message)
  OBVIOUS
<1>4. ToolsAreGranted(r.toolboxes, skills, message)
  BY <1>3, ToolsAreMatched
<1>5. ServersAreGranted(r.servers, skills, message)
  BY <1>3, ServersAreMatched
<1>6. OffersAreAnswered(r.toolboxes, r.servers)
  BY OffersHaveTakers
<1>7. proc[h].at = "ready" /\ UNCHANGED <<skillVars>>
  BY DEF Turn, At
<1>8. r = [message |-> r.message, model |-> r.model, servers |-> r.servers,
           toolboxes |-> r.toolboxes, deferred |-> r.deferred]
  OBVIOUS
<1> HIDE DEF r
<1>9. Right(r, proc[h])
  BY <1>1, <1>3, <1>4, <1>5, <1>6, <1>7, <1>8 DEF Right
<1> QED
  BY <1>0, <1>7, <1>9, RequestChanges

LEMMA SkillSearchKeeps == ASSUME StartInv, NEW h \in Hosts, NEW name, SkillSearch(h, name) PROVE StartInv'
<1>1. PICK skills \in Seq(Skill) : skills = proc[h].skills
  BY DEF StartInv, Host
<1>2. PICK found : found = GetToolboxesForSkill(skills, name)
  OBVIOUS
<1>3. PICK r : r = [request[h] EXCEPT !.deferred = found]
  OBVIOUS
<1>4. request' = [request EXCEPT ![h] = r]
  BY <1>1, <1>2, <1>3 DEF SkillSearch
<1>5. Right(request[h], proc[h]) /\ request[h] # NoValue /\ UNCHANGED <<skillVars>> /\ name \in LazySkillDirectory(skills)
  BY <1>1 DEF StartInv, SkillSearch
<1>6. PICK q : q = request[h] /\ q = [message |-> q.message, model |-> q.model, servers |-> q.servers,
                                    toolboxes |-> q.toolboxes, deferred |-> q.deferred]
  BY <1>5 DEF Right
<1>7. r = [message |-> q.message, model |-> q.model, servers |-> q.servers,
           toolboxes |-> q.toolboxes, deferred |-> found]
  BY <1>3, <1>6
<1>8. /\ r.message = q.message /\ r.model = q.model /\ r.servers = q.servers
      /\ r.toolboxes = q.toolboxes /\ r.deferred = found
  BY <1>7
<1>9. \E i, j \in DOMAIN skills :
        /\ skills[i].lazy /\ skills[i].available
        /\ found = skills[j].toolboxes
        /\ j = i \/ (j < i /\ skills[j].name = skills[i].name)
  BY <1>2, <1>5, SearchFinds
<1>10. Right(r, proc[h])
  BY <1>1, <1>5, <1>6, <1>7, <1>8, <1>9 DEF Right
<1> QED
  BY <1>4, <1>5, <1>10, RequestChanges

LEMMA DieKeeps == ASSUME StartInv, NEW h \in Hosts, Die(h) PROVE StartInv'
<1>1. proc' = [proc EXCEPT ![h] = Off] /\ request' = [request EXCEPT ![h] = NoValue] /\ UNCHANGED <<disk, raced, installed>>
  BY DEF Die
<1>2. DiskInv'
  BY <1>1 DEF StartInv, DiskInv, disk
<1>3. /\ proc' \in [Hosts -> Host] /\ proc'[h] = Off /\ (\A x \in Hosts \ {h} : proc'[x] = proc[x])
      /\ request'[h] = NoValue /\ (\A x \in Hosts \ {h} : request'[x] = request[x])
      /\ request' = [x \in Hosts |-> request'[x]]
  BY <1>1, OffIsHost DEF StartInv
<1>4. ASSUME NEW x \in Hosts PROVE Moving(proc[x])' /\ Right(request[x], proc[x])'
  <2>1. CASE x = h
    BY <1>3, <2>1, OffIsHost DEF Moving, Right
  <2>2. CASE x # h
    <3>1. Moving(proc[x]) /\ Right(request[x], proc[x])
      BY DEF StartInv
    <3>2. Moving(proc[x])'
      BY <1>1, <1>3, <2>2, <3>1 DEF Moving, disk
    <3>3. Right(request[x], proc[x])'
      BY <1>3, <2>2, <3>1 DEF Right
    <3> QED
      BY <3>2, <3>3
  <2> QED
    BY <2>1, <2>2
<1> QED
  BY <1>2, <1>3, <1>4 DEF StartInv

LEMMA Unchanged == ASSUME StartInv, UNCHANGED <<skillVars, request>> PROVE StartInv'
<1>1. UNCHANGED <<disk, raced, installed, proc, request>>
  BY DEF skillVars
<1>2. DiskInv'
  BY <1>1 DEF StartInv, DiskInv, disk
<1>3. \A x \in Hosts : Moving(proc[x])'
  BY <1>1 DEF StartInv, Moving, disk
<1>4. \A x \in Hosts : Right(request[x], proc[x])'
  BY <1>1 DEF StartInv, Right
<1> QED
  BY <1>1, <1>2, <1>3, <1>4 DEF StartInv

LEMMA StartNextKeeps == StartInv /\ [StartNext]_startupVars => StartInv'
<1> SUFFICES ASSUME StartInv, [StartNext]_startupVars PROVE StartInv'
  OBVIOUS
<1>1. ASSUME NEW s \in Stems, NEW bundle \in Bundles, InstallSkill(s, bundle), UNCHANGED startVars PROVE StartInv'
  BY <1>1, InstallSkillKeeps DEF startVars
<1>2. ASSUME NEW c \in Commands, InstallCommand(c), UNCHANGED startVars PROVE StartInv'
  BY <1>2, InstallCommandKeeps DEF startVars
<1>3. ASSUME NEW h \in Hosts, Migrates(h), UNCHANGED startVars PROVE StartInv'
  <2>1. request' = request
    BY <1>3 DEF startVars
  <2>2. CASE MigrateList(h)
    BY <2>1, <2>2, MigrateListKeeps
  <2>3. CASE \E s \in Stems : MigrateCheck(h, s)
    BY <2>1, <2>3, MigrateCheckKeeps
  <2>4. CASE MigrateMake(h)
    BY <2>1, <2>4, MigrateMakeKeeps
  <2>5. CASE MigrateMove(h)
    BY <2>1, <2>5, MigrateMoveKeeps
  <2>6. CASE MigrateDone(h)
    BY <2>1, <2>6, HostGoes DEF MigrateDone, At, Ats
  <2> QED
    BY <1>3, <2>2, <2>3, <2>4, <2>5, <2>6 DEF Migrates
<1>4. ASSUME NEW h \in Hosts, LoadsSkills(h), UNCHANGED startVars PROVE StartInv'
  <2>1. request' = request
    BY <1>4 DEF startVars
  <2>2. CASE LoadList(h)
    BY <2>1, <2>2, LoadListKeeps
  <2>3. CASE LoadDone(h)
    BY <2>1, <2>3, HostGoes DEF LoadDone, At, Ats
  <2>4. CASE \E s \in Stems : LoadEntry(h, s)
    BY <2>1, <2>4, LoadEntryKeeps
  <2> QED
    BY <1>4, <2>2, <2>3, <2>4 DEF LoadsSkills
<1>5. ASSUME NEW h \in Hosts, NEW c \in Settings[h], Configure(h, c) PROVE StartInv'
  BY <1>5, HostGoes DEF Configure, At, Ats
<1>6. ASSUME NEW h \in Hosts, CreateDir(h) PROVE StartInv'
  BY <1>6, HostGoes DEF CreateDir, Moves, Ats
<1>7. ASSUME NEW h \in Hosts, OpenStore(h) PROVE StartInv'
  <2>1. PICK at \in {"store", "loaded"} : at = IF builder[h].dir = SkillsDir THEN "store" ELSE "loaded"
    OBVIOUS
  <2> QED
    BY <1>7, <2>1, HostGoes DEF OpenStore, Moves, At, Ats
<1>8. ASSUME NEW h \in Hosts, BuildFails(h) PROVE StartInv'
  BY <1>8, HostGoes DEF BuildFails, Moves, Ats
<1>9. ASSUME NEW h \in Hosts, LoadProjects(h) PROVE StartInv'
  BY <1>9, HostGoes DEF LoadProjects, Moves, At, Ats
<1>10. ASSUME NEW h \in Hosts, NEW c \in ProviderConfigs[h], Create(h, c) PROVE StartInv'
  <2>1. UNCHANGED <<skillVars, request>>
    BY <1>10 DEF Create
  <2> QED
    BY <2>1, Unchanged
<1>11. ASSUME NEW h \in Hosts, NEW m \in Messages, Turn(h, m) PROVE StartInv'
  BY <1>11, TurnKeeps
<1>12. ASSUME NEW h \in Hosts, NEW s, SkillSearch(h, s) PROVE StartInv'
  BY <1>12, SkillSearchKeeps
<1>13. ASSUME NEW h \in Hosts, Die(h) PROVE StartInv'
  BY <1>13, DieKeeps
<1>14. CASE UNCHANGED startupVars
  BY <1>14, Unchanged DEF startupVars, startVars
<1>15. CASE \E h \in Hosts : HostNext(h)
  <2>1. PICK h \in Hosts : HostNext(h)
    BY <1>15
  <2> QED
    BY <2>1, <1>5, <1>6, <1>7, <1>8, <1>9, <1>10, <1>11, <1>12, <1>13 DEF HostNext
<1>16. CASE (Others \/ \E h \in Hosts : Migrates(h) \/ LoadsSkills(h)) /\ UNCHANGED startVars
  BY <1>1, <1>2, <1>3, <1>4, <1>16 DEF Others
<1> QED
  BY <1>14, <1>15, <1>16 DEF StartNext

LEMMA StartInvHolds == StartSpec => []StartInv
<1>1. StartInit => StartInv
  BY StartInitInv
<1>2. StartInv /\ [StartNext]_startupVars => StartInv'
  BY StartNextKeeps
<1> QED
  BY <1>1, <1>2, PTL DEF StartSpec

(* Every request offers the tools that its runtime's skills declare for    *)
(* its message, each from the first triggered skill that has one of its    *)
(* name and with that skill's grants; runs only servers they may run; an   *)
(* offered tool is run by what offers it; and what skill_search hands out  *)
(* later are a listed skill's schemas, or those of an earlier namesake:    *)
(* complete_with_needs, match_skill_toolboxes, match_skill_triggers and    *)
(* the ToolExecutor, for every set of skill files, hosts and installers.   *)
THEOREM RequestsAreGranted == StartSpec => []RequestIsGranted
<1>1. StartInv => RequestIsGranted
  <2> SUFFICES ASSUME StartInv PROVE RequestIsGranted
    OBVIOUS
  <2>1. \A h \in Hosts : Right(request[h], proc[h])
    BY DEF StartInv
  <2> QED
    BY <2>1 DEF RequestIsGranted, Right
<1> QED
  BY <1>1, StartInvHolds, PTL

(* A SKILL.md stays as it is and a flat file becomes its SKILL.md, however *)
(* many hosts run migrate_flat_skills at once, beside installers and       *)
(* crashes, but for what is installed between the look of a migration at   *)
(* the directory and its rename.                                           *)
THEOREM SkillFilesStay == StartSpec => SkillFilesSurvive
<1> DEFINE Stays(s) == /\ skillFile[s] # NoFile /\ s \notin raced => skillFile'[s] = skillFile[s]
                       /\ flat[s] # NoFile => flat[s] \in {flat'[s], skillFile'[s]}
<1>1. StartInv /\ [StartNext]_startupVars => [\A s \in Stems : Stays(s)]_disk
  <2> SUFFICES ASSUME StartInv, StartNext, ~ UNCHANGED disk, NEW s \in Stems PROVE Stays(s)
    BY DEF startupVars, skillVars
  <2>1. flat \in [Stems -> Files \cup {NoFile}] /\ skillFile \in [Stems -> Files \cup {NoFile}]
    BY DEF StartInv, DiskInv
  <2>2. ASSUME NEW h \in Hosts, MigrateMake(h) PROVE Stays(s)
    BY <2>2 DEF MigrateMake
  <2>3. ASSUME NEW h \in Hosts, MigrateMove(h) PROVE Stays(s)
    <3>1. PICK x \in Stems : x = proc[h].stem /\ (skillFile[x] = NoFile \/ flat[x] = NoFile \/ x \in raced)
      BY <2>3 DEF StartInv, Moving, MigrateMove, At
    <3>2. CASE UNCHANGED <<skillFile, flat>>
      BY <3>2
    <3>3. CASE flat[x] # NoFile /\ skillFile' = [skillFile EXCEPT ![x] = flat[x]] /\ flat' = [flat EXCEPT ![x] = NoFile]
      <4>1. /\ skillFile'[x] = flat[x] /\ (skillFile[x] = NoFile \/ x \in raced)
            /\ \A y \in Stems \ {x} : flat'[y] = flat[y] /\ skillFile'[y] = skillFile[y]
        BY <2>1, <3>1, <3>3
      <4> QED
        BY <4>1
    <3> QED
      BY <2>3, <3>1, <3>2, <3>3 DEF MigrateMove
  <2>4. ASSUME NEW x \in Stems, NEW bundle \in Bundles, InstallSkill(x, bundle) PROVE Stays(s)
    <3>1. /\ UNCHANGED flat /\ skillFile[x] = NoFile
          /\ \A y \in Stems \ {x} : skillFile'[y] = skillFile[y]
      BY <2>1, <2>4 DEF InstallSkill
    <3> QED
      BY <3>1
  <2>5. \/ \E h \in Hosts : MigrateMake(h) \/ MigrateMove(h)
        \/ \E x \in Stems, bundle \in Bundles : InstallSkill(x, bundle)
    BY DEF StartNext, Others, Migrates, LoadsSkills, HostNext, InstallCommand, MigrateList, MigrateCheck, MigrateDone,
           LoadList, LoadEntry, LoadDone, Configure, CreateDir, OpenStore, BuildFails, LoadProjects, Moves,
           Create, Turn, SkillSearch, Die, skillVars
  <2> QED
    BY <2>2, <2>3, <2>4, <2>5
<1> QED
  BY <1>1, StartInvHolds, PTL DEF StartSpec, SkillFilesSurvive, Stays

=============================================================================
