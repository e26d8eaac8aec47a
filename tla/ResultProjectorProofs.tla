------------------------ MODULE ResultProjectorProofs ------------------------
(***************************************************************************)
(* Proofs that the result callbacks of gaiandb.js deliver what spec 4.3    *)
(* and scenario E prescribe, for result sets of every length (every value  *)
(* of MaxRows), not only for the three rows TLC enumerates.                *)
(*                                                                         *)
(* The loops of queryResultAction and of the admin result actions are      *)
(* recursive functions over 0 .. Len(results).  Their defining equations   *)
(* come from FiniteNatInductiveDef; what they compute is shown by          *)
(* induction over the loop index, SetInduction, which rests on the least   *)
(* element of a non-empty set of naturals (WFMin).                         *)
(***************************************************************************)
EXTENDS ResultProjector, SequenceTheorems, FiniteSetTheorems,
        NaturalsInduction, WellFoundedInduction, TLAPS

-----------------------------------------------------------------------------
(* Induction over 0 .. n, for the set T of indices where a claim holds. *)
LEMMA SetInduction ==
    ASSUME NEW T, NEW n \in Nat, 0 \in T,
           \A k \in 0 .. n - 1 : k \in T => k + 1 \in T
    PROVE  0 .. n \subseteq T
<1> DEFINE U == (0 .. n) \ T
<1> SUFFICES ASSUME U # {} PROVE FALSE
    OBVIOUS
<1>1. U \subseteq Nat
    OBVIOUS
<1>2. PICK x \in U : \A y \in U : ~(<<y, x>> \in OpToRel(<, Nat))
    <2>1. \E x \in U : \A y \in U : ~(<<y, x>> \in OpToRel(<, Nat))
        BY <1>1, NatLessThanWellFounded, WFMin, Zenon
    <2>2. QED
        BY <2>1
<1>3. x \in 1 .. n
    OBVIOUS
<1>4. x - 1 \notin U
    <2>1. <<x - 1, x>> \in OpToRel(<, Nat)
        BY <1>3 DEF OpToRel
    <2>2. QED
        BY <1>2, <2>1
<1>5. QED
    BY <1>3, <1>4

-----------------------------------------------------------------------------
(* The individual-mode loop of queryResultAction,                          *)
(*     for (index = 0; index < results.length; index++)                    *)
(*         node.send({"payload": results[index]}),                         *)
(* sends one message per row, carrying that row, in order.                 *)
LEMMA SendEachRowClosed ==
    ASSUME NEW S, NEW rs \in Seq(S)
    PROVE  SendEachRow(rs) = [i \in 1 .. Len(rs) |-> [payload |-> rs[i]]]
<1> DEFINE sends[i \in 0 .. Len(rs)] ==
               IF i = 0 THEN << >> ELSE sends[i - 1] \o << [payload |-> rs[i]] >>
           Def(v, i) == v \o << [payload |-> rs[i]] >>
           Closed(k) == [i \in 1 .. k |-> [payload |-> rs[i]]]
           PS == [payload : S]
           T == {j \in 0 .. Len(rs) : sends[j] = Closed(j)}
<1>0. Len(rs) \in Nat
    OBVIOUS
<1>1. SendEachRow(rs) = sends[Len(rs)]
    BY DEF SendEachRow
<1>2. FiniteNatInductiveDefHypothesis(sends, << >>, Def, 0, Len(rs))
    BY DEF FiniteNatInductiveDefHypothesis
<1>3. FiniteNatInductiveDefConclusion(sends, << >>, Def, 0, Len(rs))
    BY <1>0, <1>2, FiniteNatInductiveDef
<1> HIDE DEF sends, Def
<1>4. /\ sends[0] = << >>
      /\ \A i \in 1 .. Len(rs) : sends[i] = sends[i - 1] \o << [payload |-> rs[i]] >>
    <2>1. sends = [i \in 0 .. Len(rs) |-> IF i = 0 THEN << >> ELSE Def(sends[i - 1], i)]
        BY <1>3 DEF FiniteNatInductiveDefConclusion
    <2>2. sends[0] = << >>
        BY <1>0, <2>1
    <2>3. ASSUME NEW i \in 1 .. Len(rs)
          PROVE  sends[i] = Def(sends[i - 1], i)
        BY <1>0, <2>1
    <2>4. QED
        BY <2>2, <2>3 DEF Def
<1>5. \A k \in 0 .. Len(rs) : Closed(k) \in Seq(PS) /\ Len(Closed(k)) = k
    BY ElementOfSeq
<1>6. 0 \in T
    BY <1>4
<1>7. \A k \in 0 .. Len(rs) - 1 : k \in T => k + 1 \in T
    <2> SUFFICES ASSUME NEW k \in 0 .. Len(rs) - 1, k \in T PROVE k + 1 \in T
        OBVIOUS
    <2> DEFINE m == [payload |-> rs[k + 1]]
    <2>0. sends[k] = Closed(k) /\ k + 1 \in 1 .. Len(rs)
        BY <1>0 DEF T
    <2>1. sends[k + 1] = Closed(k) \o << m >>
        <3>1. sends[k + 1] = sends[(k + 1) - 1] \o << [payload |-> rs[k + 1]] >>
            BY <1>4, <2>0
        <3>2. (k + 1) - 1 = k
            OBVIOUS
        <3>3. QED
            BY <2>0, <3>1, <3>2
    <2>2. << m >> \in Seq(PS) /\ Len(<< m >>) = 1 /\ << m >>[1] = m
        BY ElementOfSeq
    <2>3. /\ Closed(k) \o << m >> \in Seq(PS)
          /\ Len(Closed(k) \o << m >>) = k + 1
          /\ \A i \in 1 .. k + 1 : (Closed(k) \o << m >>)[i] =
                                     IF i <= k THEN Closed(k)[i] ELSE << m >>[i - k]
        BY <1>5, <2>2, ConcatProperties
    <2>4. \A i \in 1 .. k + 1 : (Closed(k) \o << m >>)[i] = Closed(k + 1)[i]
        BY <2>2, <2>3
    <2>5. Closed(k) \o << m >> = Closed(k + 1)
        BY <1>5, <2>3, <2>4, SeqEqual
    <2>6. QED
        BY <2>0, <2>1, <2>5 DEF T
<1>8. 0 .. Len(rs) \subseteq T
    BY <1>0, <1>6, <1>7, SetInduction
<1>9. QED
    BY <1>1, <1>8

-----------------------------------------------------------------------------
(* The admin listing: the rows among the first k that the loop pushes,   *)
(* and the position of a shown row among them.                           *)

ShownUpTo(rs, column, denylist, k) ==
    {i \in 1 .. k : column \in DOMAIN rs[i] /\ rs[i][column] \notin denylist}

Rank(Sh, i) == Cardinality({l \in Sh : l <= i})

(* The rows shown among the first k form a finite set of indices. *)
LEMMA ShownFinite ==
    ASSUME NEW rs, NEW column, NEW denylist, NEW k \in Nat
    PROVE  /\ IsFiniteSet(ShownUpTo(rs, column, denylist, k))
           /\ ShownUpTo(rs, column, denylist, k) \subseteq 1 .. k
<1>1. IsFiniteSet(1 .. k)
    BY FS_Interval
<1>2. QED
    BY <1>1, FS_Subset DEF ShownUpTo

(* A shown row's rank is between 1 and the number of shown rows. *)
LEMMA RankRange ==
    ASSUME NEW Sh \in SUBSET Nat, IsFiniteSet(Sh), NEW i \in Sh
    PROVE  Rank(Sh, i) \in 1 .. Cardinality(Sh)
<1> DEFINE L == {l \in Sh : l <= i}
<1>1. IsFiniteSet(L) /\ Cardinality(L) <= Cardinality(Sh)
    BY FS_Subset
<1>2. Cardinality(L) \in Nat /\ Cardinality(Sh) \in Nat
    BY <1>1, FS_CardinalityType
<1>3. Cardinality(L) # 0
    <2>1. i \in L
        OBVIOUS
    <2>2. QED
        BY <1>1, <2>1, FS_EmptySet
<1>4. QED
    BY <1>1, <1>2, <1>3 DEF Rank

(* Adding an index x above every shown one: one more shown row, the ranks *)
(* of the others unchanged, and x ranked last.                            *)
LEMMA RankAddLast ==
    ASSUME NEW Sh \in SUBSET Nat, IsFiniteSet(Sh), NEW x \in Nat,
           \A l \in Sh : l < x
    PROVE  /\ IsFiniteSet(Sh \cup {x})
           /\ Cardinality(Sh \cup {x}) = Cardinality(Sh) + 1
           /\ \A i \in Sh : Rank(Sh \cup {x}, i) = Rank(Sh, i)
           /\ Rank(Sh \cup {x}, x) = Cardinality(Sh) + 1
<1>1. x \notin Sh
    OBVIOUS
<1>2. IsFiniteSet(Sh \cup {x}) /\ Cardinality(Sh \cup {x}) = Cardinality(Sh) + 1
    BY <1>1, FS_AddElement
<1>3. ASSUME NEW i \in Sh PROVE Rank(Sh \cup {x}, i) = Rank(Sh, i)
    <2>1. {l \in Sh \cup {x} : l <= i} = {l \in Sh : l <= i}
        OBVIOUS
    <2>2. QED
        BY <2>1 DEF Rank
<1>4. Rank(Sh \cup {x}, x) = Cardinality(Sh) + 1
    <2>1. {l \in Sh \cup {x} : l <= x} = Sh \cup {x}
        <3>1. \A l \in Sh \cup {x} : l <= x
            OBVIOUS
        <3>2. QED
            BY <3>1, Zenon
    <2>2. QED
        BY <1>2, <2>1 DEF Rank
<1>5. QED
    BY <1>2, <1>3, <1>4

(* The loop of the /gaiandb/lts and /gaiandb/tables result actions,       *)
(*     for (...) if (results[i].hasOwnProperty(column) &&                 *)
(*                   denylist.indexOf(results[i][column]) < 0)            *)
(*                   list.push(results[i][column])                        *)
(* answers with the names of the shown rows, in the order of their rows:  *)
(* the list scenario E prescribes.                                        *)
LEMMA TableListMeetsSpec ==
    ASSUME NEW S, NEW rs \in Seq(S), NEW column, NEW denylist
    PROVE  TableList(rs, column, denylist) = SpecTableList(rs, column, denylist)
<1> DEFINE list[i \in 0 .. Len(rs)] ==
               IF i = 0 THEN << >>
               ELSE IF column \in DOMAIN rs[i] /\ rs[i][column] \notin denylist
                    THEN Append(list[i - 1], rs[i][column])
                    ELSE list[i - 1]
           Def(v, i) == IF column \in DOMAIN rs[i] /\ rs[i][column] \notin denylist
                        THEN Append(v, rs[i][column]) ELSE v
           Vals == {rs[i][column] : i \in 1 .. Len(rs)}
           Sh(k) == ShownUpTo(rs, column, denylist, k)
           Good(k) ==
               /\ list[k] \in Seq(Vals)
               /\ Len(list[k]) = Cardinality(Sh(k))
               /\ \A i \in Sh(k) : list[k][Rank(Sh(k), i)] = rs[i][column]
               /\ \A j \in 1 .. Cardinality(Sh(k)) : \E i \in Sh(k) : Rank(Sh(k), i) = j
           T == {j \in 0 .. Len(rs) : Good(j)}
<1>0. Len(rs) \in Nat
    OBVIOUS
<1>1. TableList(rs, column, denylist) = list[Len(rs)]
    BY DEF TableList
<1>2. FiniteNatInductiveDefHypothesis(list, << >>, Def, 0, Len(rs))
    BY DEF FiniteNatInductiveDefHypothesis
<1>3. FiniteNatInductiveDefConclusion(list, << >>, Def, 0, Len(rs))
    BY <1>0, <1>2, FiniteNatInductiveDef
<1> HIDE DEF list, Def
<1>4. /\ list[0] = << >>
      /\ \A i \in 1 .. Len(rs) : list[i] = Def(list[i - 1], i)
    <2>1. list = [i \in 0 .. Len(rs) |-> IF i = 0 THEN << >> ELSE Def(list[i - 1], i)]
        BY <1>3 DEF FiniteNatInductiveDefConclusion
    <2>2. QED
        BY <1>0, <2>1
<1>5. 0 \in T
    <2>1. Sh(0) = {} /\ Cardinality(Sh(0)) = 0
        BY FS_EmptySet DEF ShownUpTo
    <2>2. list[0] \in Seq(Vals) /\ Len(list[0]) = 0
        BY <1>4, EmptySeq
    <2>3. QED
        BY <1>0, <2>1, <2>2
<1>6. \A k \in 0 .. Len(rs) - 1 : k \in T => k + 1 \in T
    <2> SUFFICES ASSUME NEW k \in 0 .. Len(rs) - 1, k \in T PROVE k + 1 \in T
        OBVIOUS
    <2> DEFINE x == k + 1
               name == rs[x][column]
    <2>1. Good(k) /\ x \in 1 .. Len(rs)
        BY <1>0 DEF T
    <2>2. list[x] = Def(list[k], x)
        <3>1. list[x] = Def(list[x - 1], x)
            BY <1>4, <2>1
        <3>2. x - 1 = k
            OBVIOUS
        <3>3. QED
            BY <3>1, <3>2
    <2>3. /\ IsFiniteSet(Sh(k)) /\ Sh(k) \subseteq 1 .. k
          /\ Sh(k) \in SUBSET Nat /\ \A l \in Sh(k) : l < x
        BY ShownFinite
    <2>4. CASE column \in DOMAIN rs[x] /\ name \notin denylist
        <3>1. Sh(x) = Sh(k) \cup {x}
            BY <2>1, <2>4 DEF ShownUpTo
        <3>2. list[x] = Append(list[k], name)
            BY <2>2, <2>4 DEF Def
        <3>3. name \in Vals
            BY <2>1
        <3>4. /\ Append(list[k], name) \in Seq(Vals)
              /\ Len(Append(list[k], name)) = Len(list[k]) + 1
              /\ \A i \in 1 .. Len(list[k]) : Append(list[k], name)[i] = list[k][i]
              /\ Append(list[k], name)[Len(list[k]) + 1] = name
            <4>1. list[k] \in Seq(Vals)
                BY <2>1
            <4> HIDE DEF Vals
            <4>2. QED
                BY <4>1, <3>3, AppendProperties
        <3>5. /\ Cardinality(Sh(x)) = Cardinality(Sh(k)) + 1
              /\ \A i \in Sh(k) : Rank(Sh(x), i) = Rank(Sh(k), i)
              /\ Rank(Sh(x), x) = Cardinality(Sh(k)) + 1
            <4>1. x \in Nat
                BY <2>1
            <4> HIDE DEF Sh
            <4>2. /\ Cardinality(Sh(k) \cup {x}) = Cardinality(Sh(k)) + 1
                  /\ \A i \in Sh(k) : Rank(Sh(k) \cup {x}, i) = Rank(Sh(k), i)
                  /\ Rank(Sh(k) \cup {x}, x) = Cardinality(Sh(k)) + 1
                BY <2>3, <4>1, RankAddLast
            <4>3. QED
                BY <3>1, <4>2
        <3>6. \A i \in Sh(k) : Rank(Sh(k), i) \in 1 .. Len(list[k])
            BY <2>1, <2>3, RankRange
        <3>7. \A i \in Sh(x) : list[x][Rank(Sh(x), i)] = rs[i][column]
            BY <2>1, <3>1, <3>2, <3>4, <3>5, <3>6
        <3>8. \A j \in 1 .. Cardinality(Sh(x)) : \E i \in Sh(x) : Rank(Sh(x), i) = j
            <4> SUFFICES ASSUME NEW j \in 1 .. Cardinality(Sh(x))
                         PROVE  \E i \in Sh(x) : Rank(Sh(x), i) = j
                OBVIOUS
            <4>1. Cardinality(Sh(k)) \in Nat
                BY <2>3, FS_CardinalityType
            <4>2. CASE j <= Cardinality(Sh(k))
                BY <2>1, <3>1, <3>5, <4>1, <4>2
            <4>3. CASE j = Cardinality(Sh(k)) + 1
                BY <3>1, <3>5, <4>3
            <4>4. QED
                BY <3>5, <4>1, <4>2, <4>3
        <3>9. list[x] \in Seq(Vals) /\ Len(list[x]) = Cardinality(Sh(x))
            BY <2>1, <3>2, <3>4, <3>5
        <3>10. Good(x)
            BY <3>7, <3>8, <3>9
        <3>11. QED
            BY <2>1, <3>10 DEF T
    <2>5. CASE ~(column \in DOMAIN rs[x] /\ name \notin denylist)
        <3>1. Sh(x) = Sh(k)
            BY <2>1, <2>5 DEF ShownUpTo
        <3>2. list[x] = list[k]
            BY <2>2, <2>5 DEF Def
        <3>3. QED
            BY <2>1, <3>1, <3>2 DEF T
    <2>6. QED
        BY <2>4, <2>5
<1>7. Good(Len(rs))
    <2>1. 0 .. Len(rs) \subseteq T
        BY <1>0, <1>5, <1>6, SetInduction
    <2> HIDE DEF T
    <2>2. Len(rs) \in T
        BY <1>0, <2>1
    <2>3. QED
        BY <2>2 DEF T
<1> DEFINE Sn == Sh(Len(rs))
           kth(j) == CHOOSE i \in Sn : Cardinality({l \in Sn : l <= i}) = j
           L == list[Len(rs)]
<1>8. SpecTableList(rs, column, denylist)
        = [j \in 1 .. Cardinality(Sn) |-> rs[kth(j)][column]]
    BY DEF SpecTableList, Shown, ShownUpTo
<1>9. \A j \in 1 .. Cardinality(Sn) : kth(j) \in Sn /\ Rank(Sn, kth(j)) = j
    BY <1>7 DEF Rank
<1>10. L \in [1 .. Cardinality(Sn) -> Vals]
    BY <1>7, LenProperties
<1>11. \A j \in 1 .. Cardinality(Sn) : L[j] = rs[kth(j)][column]
    BY <1>7, <1>9
<1>12. QED
    BY <1>1, <1>8, <1>10, <1>11

(* A CASE whose first guard holds, and no other, has its first arm's value. *)
LEMMA CaseFirstArm ==
    ASSUME NEW p, NEW q, NEW r, NEW t, NEW a, NEW b, NEW c, NEW d, p, ~q, ~r, ~t
    PROVE  (CASE p -> a [] q -> b [] r -> c [] t -> d) = a
OBVIOUS

(* Every result set the driver hands over is a sequence of rows. *)
LEMMA ResultSetsAreSeqs == ResultSets \subseteq Seq(Rows)
<1> SUFFICES ASSUME NEW n \in 0 .. MaxRows, NEW rs \in [1 .. n -> Rows]
             PROVE  rs \in Seq(Rows)
    BY DEF ResultSets
<1>1. n \in Nat
    BY ProjectorAssumption
<1>2. QED
    BY <1>1

(* The callbacks' one-message outputs, as members of what spec 4.3 asks. *)
LEMMA IndividualMeetsSpec ==
    ASSUME NEW a, a.rows \in Seq(Rows)
    PROVE  SendEachRow(a.rows) \in SpecMessages("individual", a)
<1>1. SendEachRow(a.rows) = [i \in 1 .. Len(a.rows) |-> [payload |-> a.rows[i]]]
    BY SendEachRowClosed
<1>2. QED
    BY <1>1 DEF SpecMessages

-----------------------------------------------------------------------------
(***************************************************************************)
(* The fan-out of queryResultAction and updateResultAction.                *)
(***************************************************************************)

(* An answer with rows carries a sequence of rows. *)
RowsTyped == answer.kind = "rows" => answer.rows \in Seq(Rows)

(* ProjectsSpecMessages is not inductive by itself: a callback that ran on *)
(* NoAnswer, or on rows that are not a sequence, would break it.  The      *)
(* strengthening records that a callback only ever runs on an answer, and  *)
(* that the driver only answers with sequences of rows.                    *)
MInv ==
    /\ RowsTyped
    /\ calledBack => answer # NoAnswer
    /\ ProjectsSpecMessages

LEMMA InitMInv == Init => MInv
BY DEF Init, MInv, RowsTyped, ProjectsSpecMessages, NoAnswer

(* A driver answer is a sequence of rows, an error or a count. *)
LEMMA DriverAnswersTyped ==
    ASSUME DriverAnswers PROVE RowsTyped' /\ answer' # NoAnswer
<1>1. CASE consumer = "update"
    BY <1>1 DEF DriverAnswers, RowsTyped, CountAnswer, NoAnswer
<1>2. CASE consumer # "update"
    <2>1. \/ \E rs \in ResultSets : answer' = RowsAnswer(rs)
          \/ answer' = ErrorAnswer
        BY <1>2 DEF DriverAnswers
    <2>2. QED
        BY <2>1, ResultSetsAreSeqs DEF RowsTyped, RowsAnswer, ErrorAnswer, NoAnswer
<1>3. QED
    BY <1>1, <1>2

LEMMA NextMInv == MInv /\ [Next]_vars => MInv'
<1> SUFFICES ASSUME MInv, [Next]_vars PROVE MInv'
    OBVIOUS
<1>1. CASE DriverAnswers
    <2>1. ~calledBack'
        BY <1>1 DEF DriverAnswers, MInv
    <2>2. QED
        BY <1>1, <2>1, DriverAnswersTyped DEF MInv, ProjectsSpecMessages
<1>2. CASE Callback
    <2>1. /\ consumer' = consumer /\ answer' = answer /\ calledBack'
          /\ answer # NoAnswer
          /\ QueryRowsCallback \/ UpdateResultAction \/ AdminRowsCallback
        BY <1>2 DEF Callback
    <2>2. RowsTyped' /\ (calledBack' => answer' # NoAnswer)
        BY <2>1 DEF MInv, RowsTyped
    <2>3. ASSUME consumer \in {"individual", "batch", "update"}, answer.kind # "error"
          PROVE  sent' \in SpecMessages(consumer, answer)
        <3>1. CASE consumer = "individual"
            <4>1. QueryRowsCallback /\ answer.kind = "rows"
                BY <2>1, <2>3, <3>1 DEF UpdateResultAction, AdminRowsCallback, QueryRowsCallback
            <4>2. sent' = SendEachRow(answer.rows)
                <5>1. answer.kind = "rows" /\ consumer = "individual"
                    BY <3>1, <4>1
                <5>2. sent' = CASE answer.kind = "rows"  /\ consumer = "individual" -> SendEachRow(answer.rows)
                                [] answer.kind = "rows"  /\ consumer = "batch"      -> << [payload |-> answer.rows] >>
                                [] answer.kind = "error" /\ consumer = "individual" -> << >>
                                [] answer.kind = "error" /\ consumer = "batch"      -> << [payload |-> Undefined] >>
                    BY <4>1 DEF QueryRowsCallback
                <5>3. QED
                    BY <5>1, <5>2, CaseFirstArm
            <4>3. QED
                BY <3>1, <4>1, <4>2, IndividualMeetsSpec DEF MInv, RowsTyped
        <3>2. CASE consumer = "batch"
            <4>1. QueryRowsCallback /\ answer.kind = "rows"
                BY <2>1, <2>3, <3>2 DEF UpdateResultAction, AdminRowsCallback, QueryRowsCallback
            <4>2. sent' = << [payload |-> answer.rows] >>
                BY <3>2, <4>1 DEF QueryRowsCallback
            <4>3. QED
                BY <3>2, <4>2 DEF SpecMessages
        <3>3. CASE consumer = "update"
            <4>1. UpdateResultAction
                BY <2>1, <3>3 DEF QueryRowsCallback, AdminRowsCallback
            <4>2. QED
                BY <3>3, <4>1 DEF UpdateResultAction, SpecMessages
        <3>4. QED
            BY <2>3, <3>1, <3>2, <3>3
    <2>4. QED
        BY <2>1, <2>2, <2>3 DEF MInv, ProjectsSpecMessages
<1>3. CASE NextStatement
    BY <1>3 DEF NextStatement, MInv, RowsTyped, ProjectsSpecMessages, NoAnswer
<1>4. CASE UNCHANGED vars
    BY <1>4 DEF vars, MInv, RowsTyped, ProjectsSpecMessages
<1>5. QED
    BY <1>1, <1>2, <1>3, <1>4 DEF Next

(* Spec 4.3 for every bound on the result sets and with or without         *)
(* toObjArray errors: once queryResultAction's callback has run on rows,   *)
(* an individual node has sent one message per row carrying that row, in   *)
(* order, and a batch node one message with all the rows; once             *)
(* updateResultAction has run, the node has sent one message with the     *)
(* count.                                                                  *)
THEOREM CallbacksProjectSpecMessages == Spec => []ProjectsSpecMessages
<1>1. Init => MInv
    BY InitMInv
<1>2. MInv /\ [Next]_vars => MInv'
    BY NextMInv
<1>3. MInv => ProjectsSpecMessages
    BY DEF MInv
<1>4. QED
    BY <1>1, <1>2, <1>3, PTL DEF Spec

-----------------------------------------------------------------------------
(***************************************************************************)
(* The answers of the /gaiandb/lts and /gaiandb/tables endpoints.          *)
(***************************************************************************)

(* Admin listing on rows: once an admin callback has run on the rows of    *)
(* its catalog query, the editor has been answered with the shown names    *)
(* in catalog order.  Unlike AnswersSpecTableList it says nothing of a     *)
(* toObjArray error, after which the code answers nothing.                 *)
AnswersOnRows ==
    (calledBack /\ consumer \in {"lts", "tables"} /\ answer.kind # "error")
        => response = Json(SpecTableList(answer.rows, Column(consumer), Denylist(consumer)))

(* The strengthening: callbacks run only on answers, rows are sequences of *)
(* rows, and an error answer needs a toObjArray that can fail.             *)
TInv ==
    /\ RowsTyped
    /\ calledBack => answer # NoAnswer
    /\ ~ToObjArrayFails => answer.kind # "error"
    /\ AnswersOnRows

LEMMA InitTInv == Init => TInv
BY DEF Init, TInv, RowsTyped, AnswersOnRows, NoAnswer

LEMMA DriverAnswersNoError ==
    ASSUME DriverAnswers, ~ToObjArrayFails PROVE answer'.kind # "error"
<1>1. CASE consumer = "update"
    BY <1>1 DEF DriverAnswers, CountAnswer
<1>2. CASE consumer # "update"
    <2>1. \E rs \in ResultSets : answer' = RowsAnswer(rs)
        BY <1>2 DEF DriverAnswers
    <2>2. QED
        BY <2>1 DEF RowsAnswer
<1>3. QED
    BY <1>1, <1>2

LEMMA NextTInv == TInv /\ [Next]_vars => TInv'
<1> SUFFICES ASSUME TInv, [Next]_vars PROVE TInv'
    OBVIOUS
<1>1. CASE DriverAnswers
    <2>1. ~calledBack'
        BY <1>1 DEF DriverAnswers, TInv
    <2>2. QED
        BY <1>1, <2>1, DriverAnswersTyped, DriverAnswersNoError DEF TInv, AnswersOnRows
<1>2. CASE Callback
    <2>1. /\ consumer' = consumer /\ answer' = answer /\ calledBack'
          /\ answer # NoAnswer
          /\ QueryRowsCallback \/ UpdateResultAction \/ AdminRowsCallback
        BY <1>2 DEF Callback
    <2>2. ASSUME consumer \in {"lts", "tables"}, answer.kind # "error"
          PROVE  response' = Json(SpecTableList(answer.rows, Column(consumer), Denylist(consumer)))
        <3>1. AdminRowsCallback /\ answer.kind = "rows"
            BY <2>1, <2>2 DEF QueryRowsCallback, UpdateResultAction, AdminRowsCallback
        <3>2. response' = Json(TableList(answer.rows, Column(consumer), Denylist(consumer)))
            BY <3>1 DEF AdminRowsCallback
        <3>3. answer.rows \in Seq(Rows)
            BY <3>1 DEF TInv, RowsTyped
        <3>4. QED
            BY <3>2, <3>3, TableListMeetsSpec
    <2>3. QED
        BY <2>1, <2>2 DEF TInv, RowsTyped, AnswersOnRows
<1>3. CASE NextStatement
    BY <1>3 DEF NextStatement, TInv, RowsTyped, AnswersOnRows, NoAnswer
<1>4. CASE UNCHANGED vars
    BY <1>4 DEF vars, TInv, RowsTyped, AnswersOnRows
<1>5. QED
    BY <1>1, <1>2, <1>3, <1>4 DEF Next

(* For every bound on the result sets, with or without toObjArray errors:  *)
(* once a /gaiandb/lts or /gaiandb/tables callback has run on rows, its    *)
(* res.json has answered with the shown names in catalog order.            *)
THEOREM AdminAnswersOnRows == Spec => []AnswersOnRows
<1>1. Init => TInv
    BY InitTInv
<1>2. TInv /\ [Next]_vars => TInv'
    BY NextTInv
<1>3. TInv => AnswersOnRows
    BY DEF TInv
<1>4. QED
    BY <1>1, <1>2, <1>3, PTL DEF Spec

(* Section 7 and scenario E, for every bound on the result sets, when       *)
(* toObjArray does not fail: once an admin callback has run, the editor     *)
(* has been answered with the listing the spec prescribes.  Without the     *)
(* hypothesis it fails: run admin_unanswered shows the request left         *)
(* unanswered after an error.                                               *)
THEOREM AdminAnswersSpecTableList ==
    ASSUME ~ToObjArrayFails PROVE Spec => []AnswersSpecTableList
<1>1. TInv => AnswersSpecTableList
    BY DEF TInv, AnswersOnRows, AnswersSpecTableList
<1>2. QED
    BY <1>1, InitTInv, NextTInv, PTL DEF Spec

=============================================================================
