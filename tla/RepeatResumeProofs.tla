-------------------------- MODULE RepeatResumeProofs --------------------------
(***************************************************************************)
(* Proofs about RepeatResume, for every number of rounds and tasks.         *)
(*                                                                          *)
(* Workers add their indices to round_sum in any order. The sum of a set of *)
(* indices is counted here instead of folded: as the number of pairs of an   *)
(* index in the set and a smaller number.                                   *)
(***************************************************************************)
EXTENDS RepeatResume, FiniteSetTheorems, FunctionTheorems, TLAPS

Below(S) == {pair \in S \X Task : pair[2] < pair[1]}
SumOf(S) == Cardinality(Below(S))

LEMMA TaskFinite == IsFiniteSet(Task) /\ Cardinality(Task) = tasks
BY RoundsAssumption, FS_Interval DEF Task

LEMMA DisjointUnion ==
  ASSUME NEW S, NEW T, IsFiniteSet(S), IsFiniteSet(T), S \cap T = {}
  PROVE  /\ IsFiniteSet(S \cup T)
         /\ Cardinality(S \cup T) = Cardinality(S) + Cardinality(T)
<1>1. Cardinality(S \cap T) = 0
  BY FS_EmptySet
<1>2. Cardinality(S) \in Nat /\ Cardinality(T) \in Nat
  BY FS_CardinalityType
<1>3. /\ IsFiniteSet(S \cup T)
      /\ Cardinality(S \cup T)
           = Cardinality(S) + Cardinality(T) - Cardinality(S \cap T)
  BY FS_Union
<1> QED
  BY <1>1, <1>2, <1>3

LEMMA SumType ==
  ASSUME NEW S \in SUBSET Task
  PROVE  IsFiniteSet(Below(S)) /\ SumOf(S) \in Nat
<1>1. IsFiniteSet(S \X Task)
  BY TaskFinite, FS_Subset, FS_Product
<1>2. Below(S) \in SUBSET (S \X Task)
  BY DEF Below
<1> QED
  BY <1>1, <1>2, FS_Subset, FS_CardinalityType DEF SumOf

LEMMA SumEmpty == SumOf({}) = 0
<1>1. Below({}) = {}
  BY DEF Below
<1> QED
  BY <1>1, FS_EmptySet DEF SumOf

\* A worker that adds its index adds a row of pairs.
LEMMA SumAdds ==
  ASSUME NEW S \in SUBSET Task, NEW i \in Task \ S
  PROVE  SumOf(S \cup {i}) = SumOf(S) + i
<1> DEFINE row == {i} \X (0..(i - 1))
<1>1. i \in Nat
  BY RoundsAssumption DEF Task
<1>2. IsFiniteSet(row) /\ Cardinality(row) = i
  <2>1. IsFiniteSet(0..(i - 1)) /\ Cardinality(0..(i - 1)) = i
    BY <1>1, FS_Interval
  <2> QED
    <3> DEFINE one == {i}
               smaller == 0..(i - 1)
    <3>1. IsFiniteSet(one) /\ Cardinality(one) = 1
      BY FS_Singleton
    <3>2. one \X smaller = row
      OBVIOUS
    <3> HIDE DEF one, smaller, row
    <3>3. /\ IsFiniteSet(one \X smaller)
          /\ Cardinality(one \X smaller) = Cardinality(one) * Cardinality(smaller)
      BY <2>1, <3>1, FS_Product DEF smaller
    <3>4. Cardinality(smaller) = i
      BY <2>1 DEF smaller
    <3>5. Cardinality(one) * Cardinality(smaller) = i
      BY <1>1, <3>1, <3>4
    <3> QED
      BY <3>2, <3>3, <3>5
<1>3. Below(S \cup {i}) = Below(S) \cup row
  <2>1. \A j \in Task : j < i <=> j \in 0..(i - 1)
    BY <1>1, RoundsAssumption DEF Task
  <2>2. 0..(i - 1) \subseteq Task
    BY RoundsAssumption DEF Task
  <2> QED
    BY <2>1, <2>2 DEF Below
<1>4. Below(S) \cap row = {}
  BY DEF Below
<1> HIDE DEF row
<1> QED
  BY <1>2, <1>3, <1>4, SumType, DisjointUnion DEF SumOf

\* The pairs of two tasks are those below the diagonal, those above, of which
\* there are as many, and the diagonal.
LEMMA SumOfTasks == 2 * SumOf(Task) = tasks * (tasks - 1)
<1> DEFINE lower == Below(Task)
           upper == {pair \in Task \X Task : pair[1] < pair[2]}
           diagonal == {pair \in Task \X Task : pair[1] = pair[2]}
<1>1. IsFiniteSet(Task \X Task) /\ Cardinality(Task \X Task) = tasks * tasks
  BY TaskFinite, FS_Product
<1>2. /\ IsFiniteSet(lower) /\ IsFiniteSet(upper) /\ IsFiniteSet(diagonal)
      /\ Cardinality(lower) \in Nat
  <2>1. /\ lower \in SUBSET (Task \X Task) /\ upper \in SUBSET (Task \X Task)
        /\ diagonal \in SUBSET (Task \X Task)
    BY DEF Below
  <2> QED
    BY <1>1, <2>1, FS_Subset, FS_CardinalityType
<1>3. Cardinality(upper) = Cardinality(lower)
  <2> DEFINE swap == [pair \in lower |-> <<pair[2], pair[1]>>]
  <2>1. swap \in [lower -> upper]
    BY DEF Below
  <2>2. \A a, b \in lower : swap[a] = swap[b] => a = b
    BY DEF Below
  <2>3. \A t \in upper : \E s \in lower : swap[s] = t
    <3> TAKE t \in upper
    <3>1. <<t[2], t[1]>> \in lower /\ swap[<<t[2], t[1]>>] = t
      BY DEF Below
    <3> QED
      BY <3>1
  <2>4. ExistsBijection(lower, upper)
    <3> HIDE DEF swap, lower, upper
    <3>1. swap \in Bijection(lower, upper)
      BY <2>1, <2>2, <2>3, Fun_IsBij
    <3> QED
      BY <3>1 DEF ExistsBijection
  <2> QED
    BY <1>2, <2>4, FS_Bijection
<1>4. Cardinality(diagonal) = tasks
  <2> DEFINE twice == [i \in Task |-> <<i, i>>]
  <2>1. twice \in [Task -> diagonal]
    OBVIOUS
  <2>2. \A a, b \in Task : twice[a] = twice[b] => a = b
    OBVIOUS
  <2>3. \A t \in diagonal : \E s \in Task : twice[s] = t
    OBVIOUS
  <2>4. ExistsBijection(Task, diagonal)
    <3> HIDE DEF twice, diagonal
    <3>1. twice \in Bijection(Task, diagonal)
      BY <2>1, <2>2, <2>3, Fun_IsBij
    <3> QED
      BY <3>1 DEF ExistsBijection
  <2> QED
    BY <2>4, TaskFinite, FS_Bijection
<1>5. /\ lower \cup upper \cup diagonal = Task \X Task
      /\ lower \cap upper = {} /\ (lower \cup upper) \cap diagonal = {}
  <2>1. \A i, j \in Task : /\ i < j \/ j < i \/ i = j
                           /\ ~(i < j /\ j < i)
                           /\ i = j => ~(i < j)
    BY RoundsAssumption DEF Task
  <2> QED
    BY <2>1 DEF Below
<1>6. 2 * Cardinality(lower) + tasks = tasks * tasks
  <2> HIDE DEF lower, upper, diagonal
  <2>1. /\ IsFiniteSet(lower \cup upper)
        /\ Cardinality(lower \cup upper) = 2 * Cardinality(lower)
    <3>1. Cardinality(lower \cup upper) = Cardinality(lower) + Cardinality(upper)
      BY <1>2, <1>5, DisjointUnion
    <3>2. IsFiniteSet(lower \cup upper)
      BY <1>2, <1>5, DisjointUnion
    <3> QED
      BY <1>2, <1>3, <3>1, <3>2
  <2>2. Cardinality((lower \cup upper) \cup diagonal)
          = 2 * Cardinality(lower) + tasks
    BY <1>2, <1>4, <1>5, <2>1, DisjointUnion
  <2> QED
    BY <1>1, <1>5, <2>2
<1>7. \A n, c \in Nat : 2 * c + n = n * n => 2 * c = n * (n - 1)
  OBVIOUS
<1> QED
  BY <1>2, <1>6, <1>7, RoundsAssumption DEF SumOf

LEMMA SumIsExpected == SumOf(Task) = expected_round_sum
<1>1. SumOf(Task) \in Nat
  BY SumType
<1>2. \A s \in Nat, x \in Int : 2 * s = x => s = x \div 2
  OBVIOUS
<1>3. tasks * (tasks - 1) \in Int
  BY RoundsAssumption
<1> QED
  BY <1>1, <1>2, <1>3, SumOfTasks DEF expected_round_sum

-----------------------------------------------------------------------------
Stage == {"none", "timer", "queued", "added", "counted", "left"}
Inside == {"timer", "queued", "added", "counted"}
Added == {"added", "counted", "left"}
Counted == {"counted", "left"}

InStages(f, stages) == {i \in Task : f[i] \in stages}

Types ==
  /\ starter \in 0..(tasks + 1)
  /\ child \in [Task -> Stage]
  /\ notify \in {"none", "registered", "delivered"}
  /\ round_sum \in Nat /\ total_sum \in Nat /\ current_round \in Nat
  /\ completed_rounds \in Nat /\ completed \in Nat
  /\ status \in {"running", "ok"}

\* The children not yet created are those the loop has still to come to, the
\* group counts those that are to leave it, and the sum is of those that have
\* added to it.
RoundInv ==
  /\ \A i \in Task : child[i] = "none" <=> starter <= i
  /\ notify = "none" <=> starter <= tasks
  /\ group = Cardinality(InStages(child, Inside))
  /\ round_sum = SumOf(InStages(child, Added))
  /\ notify = "delivered" => \A i \in Task : child[i] = "left"

\* What the rounds that were completed have left behind.
SeriesInv ==
  /\ completed_rounds = current_round
  /\ total_sum = current_round * expected_round_sum
  /\ running => /\ current_round < rounds
                /\ completed = current_round * tasks
                                + Cardinality(InStages(child, Counted))
  /\ ~running => current_round = rounds /\ completed = rounds * tasks

IInv == Types /\ RoundInv /\ SeriesInv

-----------------------------------------------------------------------------
LEMMA StageCounts ==
  ASSUME NEW f \in [Task -> Stage], NEW X
  PROVE  /\ InStages(f, X) \in SUBSET Task
         /\ IsFiniteSet(InStages(f, X))
         /\ Cardinality(InStages(f, X)) \in 0..tasks
<1>1. InStages(f, X) \in SUBSET Task
  BY DEF InStages
<1>2. /\ IsFiniteSet(InStages(f, X))
      /\ Cardinality(InStages(f, X)) <= Cardinality(Task)
  BY <1>1, TaskFinite, FS_Subset
<1> QED
  BY <1>1, <1>2, TaskFinite, FS_CardinalityType, RoundsAssumption

\* What becomes of the children in some stages when child i moves between two.
Moves(f, g, i, from, to, X) ==
  /\ (from \in X <=> to \in X) => InStages(g, X) = InStages(f, X)
  /\ from \notin X /\ to \in X =>
       /\ InStages(g, X) = InStages(f, X) \cup {i}
       /\ i \notin InStages(f, X)
       /\ Cardinality(InStages(g, X)) = Cardinality(InStages(f, X)) + 1
  /\ from \in X /\ to \notin X =>
       Cardinality(InStages(g, X)) = Cardinality(InStages(f, X)) - 1

LEMMA StageChanges ==
  ASSUME NEW f \in [Task -> Stage], NEW g, NEW i \in Task, NEW s,
         g = [f EXCEPT ![i] = s], NEW X
  PROVE  Moves(f, g, i, f[i], s, X)
<1>1. ASSUME f[i] \in X <=> s \in X
      PROVE  InStages(g, X) = InStages(f, X)
  BY <1>1 DEF InStages
<1>2. IsFiniteSet(InStages(f, X)) /\ Cardinality(InStages(f, X)) \in Nat
  BY StageCounts
<1>3. ASSUME f[i] \notin X, s \in X
      PROVE  /\ InStages(g, X) = InStages(f, X) \cup {i}
             /\ i \notin InStages(f, X)
             /\ Cardinality(InStages(g, X)) = Cardinality(InStages(f, X)) + 1
  <2>1. InStages(g, X) = InStages(f, X) \cup {i} /\ i \notin InStages(f, X)
    BY <1>3 DEF InStages
  <2>2. Cardinality(InStages(f, X) \cup {i}) = Cardinality(InStages(f, X)) + 1
    BY <1>2, <2>1, FS_AddElement
  <2> QED
    BY <2>1, <2>2
<1>4. ASSUME f[i] \in X, s \notin X
      PROVE  Cardinality(InStages(g, X)) = Cardinality(InStages(f, X)) - 1
  <2>1. InStages(g, X) = InStages(f, X) \ {i} /\ i \in InStages(f, X)
    BY <1>4 DEF InStages
  <2>2. Cardinality(InStages(f, X) \ {i}) = Cardinality(InStages(f, X)) - 1
    BY <1>2, <2>1, FS_RemoveElement
  <2> QED
    BY <2>1, <2>2
<1> QED
  BY <1>1, <1>3, <1>4 DEF Moves

\* Before the loop no child is in any stage that counts.
LEMMA NoneStarted ==
  ASSUME NEW X, "none" \notin X
  PROVE  InStages([i \in Task |-> "none"], X) = {}
BY DEF InStages

\* A notified round has left all of its children behind.
LEMMA AllLeft ==
  ASSUME Types, RoundInv, notify = "delivered", NEW X, "left" \in X
  PROVE  InStages(child, X) = Task
BY DEF RoundInv, InStages

\* So the sum of a notified round is the expected one.
LEMMA NotifiedSum ==
  ASSUME Types, RoundInv, notify = "delivered"
  PROVE  round_sum = expected_round_sum
<1>1. InStages(child, Added) = Task
  BY AllLeft DEF Added
<1> QED
  BY <1>1, SumIsExpected DEF RoundInv

LEMMA InvariantInit == Init => IInv
<1> SUFFICES ASSUME Init PROVE IInv
  OBVIOUS
<1>1. Types
  BY RoundsAssumption DEF Init, Types, Stage
<1>2. /\ InStages(child, Inside) = {} /\ InStages(child, Added) = {}
      /\ InStages(child, Counted) = {}
  BY NoneStarted DEF Init, Inside, Added, Counted
<1>3. RoundInv
  <2>1. \A i \in Task : child[i] = "none" <=> starter <= i
    BY RoundsAssumption DEF Init, Task
  <2> QED
    BY <1>2, <2>1, SumEmpty, FS_EmptySet, RoundsAssumption DEF Init, RoundInv
<1>4. SeriesInv
  <2>1. expected_round_sum \in Int
    BY SumIsExpected, SumType
  <2> QED
    BY <1>2, <2>1, FS_EmptySet, RoundsAssumption DEF Init, SeriesInv, running
<1> QED
  BY <1>1, <1>3, <1>4 DEF IInv

\* A child moves to its next stage, and one of the counts moves with it.
LEMMA ChildStep ==
  ASSUME IInv, NEW i \in Task,
         FireTimer(i) \/ AddToSum(i) \/ CountCompleted(i) \/ LeaveGroup(i)
  PROVE  IInv'
<1> DEFINE s == child'[i]
<1>1. /\ Types /\ RoundInv /\ SeriesInv /\ running
      /\ child[i] \in {"timer", "queued", "added", "counted"}
      /\ child' = [child EXCEPT ![i] = s]
      /\ s \in {"queued", "added", "counted", "left"}
      /\ UNCHANGED <<starter, notify, total_sum, current_round,
                     completed_rounds, status>>
  BY DEF IInv, Types, FireTimer, AddToSum, CountCompleted, LeaveGroup
<1>2. notify # "delivered"
  BY <1>1 DEF RoundInv
<1>3. \A j \in Task : child'[j] = "none" <=> starter' <= j
  BY <1>1 DEF Types, RoundInv
<1>4. Types'
  <2>1. child' \in [Task -> Stage]
    BY <1>1 DEF Types, Stage
  <2>2. i \in Nat
    BY RoundsAssumption DEF Task
  <2>3. round_sum' \in Nat /\ completed' \in Nat
    BY <1>1, <2>2 DEF Types, FireTimer, AddToSum, CountCompleted, LeaveGroup
  <2> QED
    BY <1>1, <2>1, <2>3 DEF Types
<1>5. /\ group' = Cardinality(InStages(child', Inside))
      /\ round_sum' = SumOf(InStages(child', Added))
      /\ completed' = current_round * tasks
                      + Cardinality(InStages(child', Counted))
  <2>1. /\ child \in [Task -> Stage]
        /\ group = Cardinality(InStages(child, Inside))
        /\ round_sum = SumOf(InStages(child, Added))
        /\ completed = current_round * tasks
                       + Cardinality(InStages(child, Counted))
        /\ current_round * tasks \in Nat
    BY <1>1, RoundsAssumption DEF Types, RoundInv, SeriesInv
  <2>2. /\ InStages(child, Added) \in SUBSET Task
        /\ Cardinality(InStages(child, Counted)) \in Nat
    BY <2>1, StageCounts, RoundsAssumption
  <2>3. CASE FireTimer(i)
    <3>1. /\ child[i] = "timer" /\ child' = [child EXCEPT ![i] = "queued"]
          /\ UNCHANGED <<group, round_sum, completed>>
      BY <2>1, <2>3 DEF FireTimer
    <3>2. /\ "timer" \in Inside /\ "timer" \notin Added /\ "timer" \notin Counted
          /\ "queued" \in Inside /\ "queued" \notin Added /\ "queued" \notin Counted
          /\ "queued" \in Stage
      BY DEF Stage, Inside, Added, Counted
    <3>3. /\ Moves(child, child', i, "timer", "queued", Inside)
          /\ Moves(child, child', i, "timer", "queued", Added)
          /\ Moves(child, child', i, "timer", "queued", Counted)
      BY <2>1, <3>1, StageChanges
    <3>4. /\ InStages(child', Inside) = InStages(child, Inside)
          /\ InStages(child', Added) = InStages(child, Added)
          /\ InStages(child', Counted) = InStages(child, Counted)
      BY <3>2, <3>3 DEF Moves
    <3> QED
      BY <2>1, <3>1, <3>4
  <2>4. CASE AddToSum(i)
    <3>1. /\ child[i] = "queued" /\ child' = [child EXCEPT ![i] = "added"]
          /\ round_sum' = round_sum + i
          /\ UNCHANGED <<group, completed>>
      BY <2>1, <2>4 DEF AddToSum
    <3>2. /\ "queued" \in Inside /\ "queued" \notin Added /\ "queued" \notin Counted
          /\ "added" \in Inside /\ "added" \in Added /\ "added" \notin Counted
          /\ "added" \in Stage
      BY DEF Stage, Inside, Added, Counted
    <3>3. /\ Moves(child, child', i, "queued", "added", Inside)
          /\ Moves(child, child', i, "queued", "added", Added)
          /\ Moves(child, child', i, "queued", "added", Counted)
      BY <2>1, <3>1, StageChanges
    <3>4. /\ InStages(child', Inside) = InStages(child, Inside)
          /\ InStages(child', Added) = InStages(child, Added) \cup {i}
          /\ i \notin InStages(child, Added)
          /\ InStages(child', Counted) = InStages(child, Counted)
      BY <3>2, <3>3 DEF Moves
    <3> QED
      BY <2>1, <2>2, <3>1, <3>4, SumAdds
  <2>5. CASE CountCompleted(i)
    <3>1. /\ child[i] = "added" /\ child' = [child EXCEPT ![i] = "counted"]
          /\ completed' = completed + 1
          /\ UNCHANGED <<group, round_sum>>
      BY <2>1, <2>5 DEF CountCompleted
    <3>2. /\ "added" \in Inside /\ "added" \in Added /\ "added" \notin Counted
          /\ "counted" \in Inside /\ "counted" \in Added /\ "counted" \in Counted
          /\ "counted" \in Stage
      BY DEF Stage, Inside, Added, Counted
    <3>3. /\ Moves(child, child', i, "added", "counted", Inside)
          /\ Moves(child, child', i, "added", "counted", Added)
          /\ Moves(child, child', i, "added", "counted", Counted)
      BY <2>1, <3>1, StageChanges
    <3>4. /\ InStages(child', Inside) = InStages(child, Inside)
          /\ InStages(child', Added) = InStages(child, Added)
          /\ Cardinality(InStages(child', Counted))
               = Cardinality(InStages(child, Counted)) + 1
      BY <3>2, <3>3 DEF Moves
    <3> QED
      BY <2>1, <2>2, <3>1, <3>4
  <2>6. CASE LeaveGroup(i)
    <3>1. /\ child[i] = "counted" /\ child' = [child EXCEPT ![i] = "left"]
          /\ group' = group - 1
          /\ UNCHANGED <<completed, round_sum>>
      BY <2>1, <2>6 DEF LeaveGroup
    <3>2. /\ "counted" \in Inside /\ "counted" \in Added /\ "counted" \in Counted
          /\ "left" \notin Inside /\ "left" \in Added /\ "left" \in Counted
          /\ "left" \in Stage
      BY DEF Stage, Inside, Added, Counted
    <3>3. /\ Moves(child, child', i, "counted", "left", Inside)
          /\ Moves(child, child', i, "counted", "left", Added)
          /\ Moves(child, child', i, "counted", "left", Counted)
      BY <2>1, <3>1, StageChanges
    <3>4. /\ Cardinality(InStages(child', Inside))
               = Cardinality(InStages(child, Inside)) - 1
          /\ InStages(child', Added) = InStages(child, Added)
          /\ InStages(child', Counted) = InStages(child, Counted)
      BY <3>2, <3>3 DEF Moves
    <3> QED
      BY <2>1, <3>1, <3>4
  <2> QED
    BY <2>3, <2>4, <2>5, <2>6
<1>6. RoundInv'
  BY <1>1, <1>2, <1>3, <1>5 DEF RoundInv
<1>7. SeriesInv'
  BY <1>1, <1>5 DEF SeriesInv, running, expected_round_sum
<1> QED
  BY <1>4, <1>6, <1>7 DEF IInv

\* The child the loop comes to has not been created, and enters the group.
LEMMA CreateStep ==
  ASSUME IInv, CreateChild
  PROVE  IInv'
<1>1. /\ Types /\ RoundInv /\ SeriesInv /\ running
      /\ starter \in Task /\ starter' = starter + 1
      /\ child' = [child EXCEPT ![starter] = "timer"]
      /\ group' = group + 1
      /\ UNCHANGED <<notify, round_sum, total_sum, current_round,
                     completed_rounds, completed, status>>
  BY DEF IInv, CreateChild
<1>2. starter \in 0..(tasks - 1) /\ starter' <= tasks
  BY <1>1, RoundsAssumption DEF Task
<1>3. child[starter] = "none" /\ notify = "none"
  BY <1>1, <1>2, RoundsAssumption DEF RoundInv
<1>4. /\ child \in [Task -> Stage] /\ "timer" \in Stage
      /\ "none" \notin Inside /\ "none" \notin Added /\ "none" \notin Counted
      /\ "timer" \in Inside /\ "timer" \notin Added /\ "timer" \notin Counted
  BY <1>1 DEF Types, Stage, Inside, Added, Counted
<1>5. /\ Moves(child, child', starter, "none", "timer", Inside)
      /\ Moves(child, child', starter, "none", "timer", Added)
      /\ Moves(child, child', starter, "none", "timer", Counted)
  <2>1. \A X : Moves(child, child', starter, child[starter], "timer", X)
    <3> SUFFICES ASSUME NEW X
                 PROVE  Moves(child, child', starter, child[starter], "timer", X)
      OBVIOUS
    <3> QED
      BY <1>1, <1>4, StageChanges
  <2> QED
    BY <1>3, <2>1
<1>6. /\ Cardinality(InStages(child', Inside))
           = Cardinality(InStages(child, Inside)) + 1
      /\ InStages(child', Added) = InStages(child, Added)
      /\ InStages(child', Counted) = InStages(child, Counted)
  BY <1>4, <1>5 DEF Moves
<1>7. \A i \in Task : child'[i] = "none" <=> starter' <= i
  <2> TAKE i \in Task
  <2>1. CASE i = starter
    BY <1>1, <1>2, <2>1, RoundsAssumption DEF Types
  <2>2. CASE i # starter
    <3>1. child'[i] = child[i]
      BY <1>1, <2>2 DEF Types
    <3>2. starter <= i <=> starter' <= i
      BY <1>1, <1>2, <2>2, RoundsAssumption DEF Task
    <3> QED
      BY <1>1, <3>1, <3>2 DEF RoundInv
  <2> QED
    BY <2>1, <2>2
<1>8. Types'
  <2>1. starter' \in 0..(tasks + 1)
    BY <1>1, <1>2, RoundsAssumption
  <2>2. child' \in [Task -> Stage]
    BY <1>1, <1>4
  <2> QED
    BY <1>1, <2>1, <2>2 DEF Types
<1>9. RoundInv'
  <2>1. notify' = "none" /\ starter' <= tasks
    BY <1>1, <1>2, <1>3
  <2>2. /\ group' = Cardinality(InStages(child', Inside))
        /\ round_sum' = SumOf(InStages(child', Added))
    BY <1>1, <1>6 DEF RoundInv
  <2> QED
    BY <1>7, <2>1, <2>2 DEF RoundInv
<1>10. SeriesInv'
  BY <1>1, <1>6 DEF SeriesInv, running, expected_round_sum
<1> QED
  BY <1>8, <1>9, <1>10 DEF IInv

LEMMA RegisterStep ==
  ASSUME IInv, RegisterNotify
  PROVE  IInv'
<1>1. /\ Types /\ RoundInv /\ SeriesInv
      /\ starter = tasks /\ starter' = tasks + 1 /\ notify' = "registered"
      /\ UNCHANGED <<child, group, round_sum, total_sum, current_round,
                     completed_rounds, completed, status>>
  BY DEF IInv, RegisterNotify
<1>2. \A i \in Task : starter <= i <=> starter' <= i
  BY <1>1, RoundsAssumption DEF Task
<1>3. starter' \in 0..(tasks + 1) /\ ~(starter' <= tasks)
  BY <1>1, RoundsAssumption
<1>4. Types'
  BY <1>1, <1>3 DEF Types
<1>5. RoundInv'
  BY <1>1, <1>2, <1>3 DEF RoundInv
<1>6. SeriesInv'
  BY <1>1 DEF SeriesInv, running, expected_round_sum
<1> QED
  BY <1>4, <1>5, <1>6 DEF IInv

\* Every child had entered the group before the notification was registered,
\* so an empty group means that all have left.
LEMMA DeliverStep ==
  ASSUME IInv, DeliverNotify
  PROVE  IInv'
<1>1. /\ Types /\ RoundInv /\ SeriesInv
      /\ notify = "registered" /\ group = 0 /\ notify' = "delivered"
      /\ UNCHANGED <<starter, child, group, round_sum, total_sum,
                     current_round, completed_rounds, completed, status>>
  BY DEF IInv, DeliverNotify
<1>2. InStages(child, Inside) = {}
  <2>1. IsFiniteSet(InStages(child, Inside))
    BY <1>1, StageCounts DEF Types
  <2>2. Cardinality(InStages(child, Inside)) = 0
    BY <1>1 DEF RoundInv
  <2> QED
    BY <2>1, <2>2, FS_EmptySet
<1>3. \A i \in Task : child[i] # "none"
  <2>1. ~(starter <= tasks)
    BY <1>1 DEF RoundInv
  <2>2. \A i \in Task : ~(starter <= i)
    BY <1>1, <2>1, RoundsAssumption DEF Types, Task
  <2> QED
    BY <1>1, <2>2 DEF RoundInv
<1>4. \A i \in Task : child[i] = "left"
  BY <1>1, <1>2, <1>3 DEF Types, Stage, InStages, Inside
<1>5. Types' /\ SeriesInv'
  BY <1>1 DEF Types, SeriesInv, running, expected_round_sum
<1>6. RoundInv'
  BY <1>1, <1>4 DEF RoundInv
<1> QED
  BY <1>5, <1>6 DEF IInv

\* A completed round: its sum is right, its workers are all counted, and the
\* next round begins with a clean slate.
LEMMA CompleteStep ==
  ASSUME IInv, RoundComplete
  PROVE  /\ IInv'
         /\ completed_rounds' = completed_rounds + 1
         /\ total_sum' = total_sum + expected_round_sum
         /\ status' = IF completed_rounds' = rounds THEN "ok" ELSE "running"
<1>1. /\ Types /\ RoundInv /\ SeriesInv /\ running /\ notify = "delivered"
      /\ completed' = completed
      /\ completed_rounds' = completed_rounds + 1
      /\ total_sum' = total_sum + round_sum
  BY DEF IInv, RoundComplete
<1>2. round_sum = expected_round_sum /\ expected_round_sum \in Nat
  BY <1>1, NotifiedSum DEF Types
<1>3. /\ current_round' = current_round + 1
      /\ \/ /\ current_round' >= rounds /\ status' = "ok"
            /\ UNCHANGED <<starter, child, group, notify, round_sum>>
         \/ current_round' < rounds /\ start_round /\ UNCHANGED status
  BY <1>2 DEF RoundComplete
<1>4. completed = current_round' * tasks
  <2>1. InStages(child, Counted) = Task
    BY <1>1, AllLeft DEF Counted
  <2>2. completed = current_round * tasks + tasks
    BY <1>1, <2>1, TaskFinite DEF SeriesInv
  <2>3. \A c, n \in Nat : c * n + n = (c + 1) * n
    OBVIOUS
  <2> QED
    BY <1>1, <1>3, <2>2, <2>3, RoundsAssumption DEF Types
<1>5. total_sum' = current_round' * expected_round_sum
  <2>1. total_sum' = current_round * expected_round_sum + expected_round_sum
    BY <1>1, <1>2 DEF SeriesInv
  <2>2. \A c, n \in Nat : c * n + n = (c + 1) * n
    OBVIOUS
  <2> QED
    BY <1>1, <1>2, <1>3, <2>1, <2>2 DEF Types
<1>6. /\ current_round < rounds /\ current_round' \in Nat
      /\ completed_rounds' = current_round' /\ total_sum' \in Nat
  BY <1>1, <1>2, <1>3 DEF Types, SeriesInv
<1>7. CASE /\ current_round' >= rounds /\ status' = "ok"
           /\ UNCHANGED <<starter, child, group, notify, round_sum>>
  <2>1. current_round' = rounds
    BY <1>1, <1>3, <1>6, <1>7, RoundsAssumption DEF Types
  <2>2. Types'
    BY <1>1, <1>6, <1>7 DEF Types
  <2>3. RoundInv'
    BY <1>1, <1>7 DEF RoundInv
  <2>4. SeriesInv'
    BY <1>1, <1>4, <1>5, <1>6, <1>7, <2>1
       DEF SeriesInv, running, expected_round_sum
  <2> QED
    BY <1>1, <1>2, <1>6, <1>7, <2>1, <2>2, <2>3, <2>4 DEF IInv
<1>8. CASE current_round' < rounds /\ start_round /\ UNCHANGED status
  <2>1. /\ starter' = 0 /\ child' = [i \in Task |-> "none"]
        /\ group' = 0 /\ notify' = "none" /\ round_sum' = 0
    BY <1>8 DEF start_round
  <2>2. /\ InStages(child', Inside) = {} /\ InStages(child', Added) = {}
        /\ InStages(child', Counted) = {}
    BY <2>1, NoneStarted DEF Inside, Added, Counted
  <2>3. Types'
    BY <1>1, <1>6, <1>8, <2>1, RoundsAssumption DEF Types, Stage
  <2>4. RoundInv'
    <3>1. \A i \in Task : child'[i] = "none" /\ starter' <= i
      BY <2>1, RoundsAssumption DEF Task
    <3>2. notify' = "none" /\ starter' <= tasks
      BY <2>1, RoundsAssumption
    <3>3. /\ group' = Cardinality(InStages(child', Inside))
          /\ round_sum' = SumOf(InStages(child', Added))
      BY <2>1, <2>2, FS_EmptySet, SumEmpty
    <3> QED
      BY <2>1, <3>1, <3>2, <3>3 DEF RoundInv
  <2>5. SeriesInv'
    <3>1. completed' = current_round' * tasks
                       + Cardinality(InStages(child', Counted))
      BY <1>1, <1>4, <2>2, FS_EmptySet DEF Types
    <3> QED
      BY <1>1, <1>5, <1>6, <1>8, <3>1
         DEF SeriesInv, running, expected_round_sum
  <2>6. status' = "running" /\ completed_rounds' # rounds
    BY <1>1, <1>6, <1>8, RoundsAssumption DEF running
  <2> QED
    BY <1>1, <1>2, <2>3, <2>4, <2>5, <2>6 DEF IInv
<1> QED
  BY <1>3, <1>7, <1>8

LEMMA InvariantStep == IInv /\ [Next]_vars => IInv'
<1> SUFFICES ASSUME IInv, [Next]_vars PROVE IInv'
  OBVIOUS
<1>1. CASE Exited \/ UNCHANGED vars
  <2>1. UNCHANGED vars
    BY <1>1 DEF Exited
  <2> QED
    BY <2>1 DEF vars, IInv, Types, RoundInv, SeriesInv, running,
       expected_round_sum
<1> QED
  BY <1>1, ChildStep, CreateStep, RegisterStep, DeliverStep, CompleteStep
     DEF Next

LEMMA Invariant == Spec => []IInv
BY InvariantInit, InvariantStep, PTL DEF Spec

-----------------------------------------------------------------------------
\* Type correctness: the group never holds more than its children, nor less
\* than none, and no record says "error".
THEOREM TypeCorrect == Spec => []TypeOK
<1>1. IInv => TypeOK
  <2> SUFFICES ASSUME IInv PROVE TypeOK
    OBVIOUS
  <2>1. group \in 0..tasks
    BY StageCounts DEF IInv, Types, RoundInv
  <2> QED
    BY <2>1 DEF IInv, Types, TypeOK, Stage
<1> QED
  BY <1>1, Invariant, PTL

\* A notified round is complete, in whatever order its timers fired and its
\* workers ran: so the EPROTO branch of the round-complete worker is dead.
THEOREM NotifiedCorrect == Spec => []NotifiedRoundIsComplete
<1>1. IInv => NotifiedRoundIsComplete
  <2> SUFFICES ASSUME IInv PROVE NotifiedRoundIsComplete
    OBVIOUS
  <2>1. notify = "delivered" => \A i \in Task : child[i] = "left"
    BY DEF IInv, RoundInv
  <2>2. notify = "delivered" => round_sum = expected_round_sum
    BY NotifiedSum DEF IInv
  <2>3. status # "error"
    BY DEF IInv, Types
  <2> QED
    BY <2>1, <2>2, <2>3 DEF NotifiedRoundIsComplete
<1> QED
  BY <1>1, Invariant, PTL

\* An ok record has the sum it prints as expected, and every worker counted.
THEOREM RecordCorrect == Spec => []OkRecordIsExact
<1>1. IInv => OkRecordIsExact
  BY DEF IInv, SeriesInv, OkRecordIsExact, running
<1> QED
  BY <1>1, Invariant, PTL

\* No entry of the children array is written for the next round while a timer
\* or a worker of this one may still read it.
THEOREM ReuseCorrect == Spec => ChildrenReusedWhenLeft
<1> DEFINE Reused == \A i \in Task :
                       child'[i] = "none" => child[i] \in {"none", "left"}
<1>1. IInv /\ [Next]_vars => [Reused]_vars
  <2> SUFFICES ASSUME IInv, Next, NEW i \in Task, child'[i] = "none"
               PROVE  child[i] \in {"none", "left"}
    OBVIOUS
  <2>1. child \in [Task -> Stage]
    BY DEF IInv, Types
  <2>2. CASE RoundComplete
    BY <2>2 DEF IInv, RoundInv, RoundComplete
  <2>3. CASE UNCHANGED child
    BY <2>3
  <2>4. ASSUME NEW j \in Task, NEW s, s # "none",
               child' = [child EXCEPT ![j] = s]
        PROVE  child[i] \in {"none", "left"}
    BY <2>1, <2>4
  <2> QED
    BY <2>2, <2>3, <2>4 DEF Next, CreateChild, RegisterNotify, FireTimer,
       AddToSum, CountCompleted, LeaveGroup, DeliverNotify, Exited, vars
<1> QED
  BY <1>1, Invariant, PTL DEF Spec, ChildrenReusedWhenLeft

\* The callbacks of the mode carry out the rounds of the abstract
\* specification, each with the expected sum.
THEOREM Implements == Spec => ImplementsRounds
<1>1. Init => Rounds!Init
  BY DEF Init, Rounds!Init
<1>2. IInv /\ [Next]_vars =>
        [Rounds!Next]_<<completed_rounds, total_sum, status>>
  <2> SUFFICES ASSUME IInv, [Next]_vars
               PROVE  \/ Rounds!Next
                      \/ UNCHANGED <<completed_rounds, total_sum, status>>
    OBVIOUS
  <2>1. CASE RoundComplete
    <3>1. Rounds!expected_round_sum = expected_round_sum
      BY DEF Rounds!expected_round_sum, expected_round_sum
    <3> QED
      BY <2>1, <3>1, CompleteStep
         DEF Rounds!Next, Rounds!CompleteRound, RoundComplete, running
  <2>2. CASE UNCHANGED <<completed_rounds, total_sum, status>>
    BY <2>2
  <2> QED
    BY <2>1, <2>2 DEF Next, CreateChild, RegisterNotify, FireTimer, AddToSum,
       CountCompleted, LeaveGroup, DeliverNotify, Exited, vars
<1> QED
  BY <1>1, <1>2, Invariant, PTL DEF Spec, ImplementsRounds, Rounds!Spec
=============================================================================
