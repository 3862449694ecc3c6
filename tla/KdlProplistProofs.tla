------------------------- MODULE KdlProplistProofs -------------------------
(***************************************************************************)
(* The merge sort of ckdl-cat, for lists of properties of every length.    *)
(***************************************************************************)
EXTENDS KdlProplist, SequenceTheorems, FiniteSetTheorems, WellFoundedInduction, TLAPS

-----------------------------------------------------------------------------
(* Induction over the natural numbers, and the loops that are written as   *)
(* recursive functions, in first-order form: a property is the set of the  *)
(* numbers that have it, what a loop does is a function.  Everything rests *)
(* on one theorem of the library, that the inclusion of finite sets is     *)
(* well-founded: the intervals 0..n inherit it.                            *)

\* A set of natural numbers that is not empty has a least element.
LEMMA Least ==
    ASSUME NEW S \in SUBSET Nat, S # {}
    PROVE  \E m \in S : \A k \in S : m <= k
<1> DEFINE R == StrictSubsetOrdering(Nat)
           T == {0..k : k \in S}
<1>1. IsWellFoundedOn(R, FiniteSubsetsOf(Nat)) BY FS_StrictSubsetOrderingWellFounded
<1>2. T \subseteq FiniteSubsetsOf(Nat)
  <2> SUFFICES ASSUME NEW k \in S PROVE 0..k \in FiniteSubsetsOf(Nat) OBVIOUS
  <2>1. IsFiniteSet(0..k) BY FS_Interval
  <2>2. 0..k \subseteq Nat OBVIOUS
  <2> QED BY <2>1, <2>2 DEF FiniteSubsetsOf
<1>3. T # {} OBVIOUS
<1> HIDE DEF R
<1>4. \E x \in T : \A y \in T : <<y, x>> \notin R BY <1>1, <1>2, <1>3, WFMin, Zenon
<1>5. PICK m \in S : \A y \in T : <<y, 0..m>> \notin R BY <1>4
<1>6. \A k \in S : m <= k
  <2> SUFFICES ASSUME NEW k \in S, k < m PROVE FALSE OBVIOUS
  <2>1. 0..k \subseteq 0..m /\ 0..m \notin SUBSET (0..k) OBVIOUS
  <2>2. <<0..k, 0..m>> \in R BY <2>1 DEF R, StrictSubsetOrdering
  <2> QED BY <1>5, <2>2
<1> QED BY <1>6

\* Induction.
LEMMA SetInduction ==
    ASSUME NEW T, 0 \in T, \A k \in Nat : k \in T => k + 1 \in T
    PROVE  Nat \subseteq T
<1> DEFINE Rest == Nat \ T
<1> SUFFICES ASSUME Rest # {} PROVE FALSE OBVIOUS
<1>1. PICK m \in Rest : \A k \in Rest : m <= k BY Least
<1>2. m - 1 \in Nat BY <1>1
<1>3. m - 1 \in T BY <1>1, <1>2
<1> QED BY <1>1, <1>2, <1>3

\* Induction up to a bound, as a loop of n turns needs it.
LEMMA UpTo ==
    ASSUME NEW T, NEW n \in Nat, 0 \in T, \A k \in 1..n : k - 1 \in T => k \in T
    PROVE  0..n \subseteq T
<1> DEFINE U == {k \in Nat : k <= n => k \in T}
<1>1. 0 \in U OBVIOUS
<1>2. ASSUME NEW k \in Nat, k \in U PROVE k + 1 \in U
  <2> SUFFICES ASSUME k + 1 <= n PROVE k + 1 \in T OBVIOUS
  <2>1. k + 1 \in 1..n /\ k + 1 - 1 = k BY <1>2
  <2>2. k \in T BY <1>2
  <2> QED BY <2>1, <2>2
<1> HIDE DEF U
<1>3. Nat \subseteq U BY <1>1, <1>2, SetInduction
<1> QED BY <1>3 DEF U

\* A loop of n turns that begins in x and whose turn k leads from y to step[k][y]: the
\* function of its states exists.
IsLoop(f, S, n, x, step) ==
    /\ f \in [0..n -> S]
    /\ f[0] = x
    /\ \A k \in 1..n : f[k] = step[k][f[k - 1]]

LEMMA Loop ==
    ASSUME NEW S, NEW n \in Nat, NEW x \in S, NEW step \in [1..n -> [S -> S]]
    PROVE  \E f : IsLoop(f, S, n, x, step)
<1> DEFINE Runs(m, f) == IsLoop(f, S, m, x, step)
           T == {m \in 0..n : \E f : Runs(m, f)}
<1>1. 0 \in T
  <2> DEFINE f == [k \in 0..0 |-> x]
  <2>1. f \in [0..0 -> S] /\ f[0] = x OBVIOUS
  <2>2. Runs(0, f) BY <2>1 DEF IsLoop
  <2> HIDE DEF f, Runs
  <2> QED BY <2>2
<1>2. ASSUME NEW m \in 1..n, m - 1 \in T PROVE m \in T
  <2>1. PICK f : Runs(m - 1, f) BY <1>2
  <2>2. /\ f \in [0..(m - 1) -> S] /\ f[0] = x
        /\ \A k \in 1..(m - 1) : f[k] = step[k][f[k - 1]]
    BY <2>1 DEF IsLoop
  <2> DEFINE g == [k \in 0..m |-> IF k < m THEN f[k] ELSE step[m][f[m - 1]]]
  <2>3. f[m - 1] \in S /\ step[m][f[m - 1]] \in S BY <2>2
  <2>4. g \in [0..m -> S] BY <2>2, <2>3
  <2>5. g[0] = x BY <2>2
  <2>6. \A k \in 1..m : g[k] = step[k][g[k - 1]] BY <2>2
  <2> HIDE DEF g
  <2>7. Runs(m, g) BY <2>4, <2>5, <2>6 DEF IsLoop
  <2> HIDE DEF Runs
  <2> QED BY <2>7
<1> HIDE DEF T
<1>3. 0..n \subseteq T BY <1>1, <1>2, UpTo
<1>4. n \in T BY <1>3
<1> QED BY <1>4 DEF T

-----------------------------------------------------------------------------
(* One turn of the merge. *)

LEMMA SideIsOpen ==
    ASSUME NEW left, NEW l \in Nat, NEW right, NEW r \in Nat,
           Len(left) \in Nat, Len(right) \in Nat, ~(l > Len(left) /\ r > Len(right))
    PROVE  /\ Side(left, l, right, r) \in {"left", "right", "both"}
           /\ Side(left, l, right, r) \in {"left", "both"} => l <= Len(left)
           /\ Side(left, l, right, r) \in {"right", "both"} => r <= Len(right)
<1> DEFINE c == Compare(left[l].name, right[r].name)
<1>1. CASE l > Len(left) BY <1>1 DEF Side
<1>2. CASE l <= Len(left) /\ r > Len(right) BY <1>2 DEF Side
<1>3. CASE l <= Len(left) /\ r <= Len(right)
  <2>1. Side(left, l, right, r) =
           CASE c < 0 -> "left" [] c > 0 -> "right" [] OTHER -> "both"
    BY <1>3 DEF Side
  <2> HIDE DEF c
  <2>2. Side(left, l, right, r) \in {"left", "right", "both"} BY <2>1
  <2> QED BY <1>3, <2>2
<1> QED BY <1>1, <1>2, <1>3

LEMMA InsertIsTyped ==
    ASSUME NEW P, NEW out \in Seq(P), NEW item \in P
    PROVE  Insert(out, item) \in Seq(P)
<1>1. Append(out, item) \in Seq(P) BY AppendProperties
<1>2. Len(out) \in Nat BY LenProperties
<1>3. \A i \in 1..Len(out) - 1 : out[i] \in P BY <1>2, ElementOfSeq
<1>4. Front(out) \in Seq(P) BY <1>2, <1>3, SubSeqProperties DEF Front
<1>5. Append(Front(out), item) \in Seq(P) BY <1>4, AppendProperties
<1> QED BY <1>1, <1>5 DEF Insert

MergeStates(P) == [l : Nat \ {0}, r : Nat \ {0}, out : Seq(P)]

LEMMA MergeTurnIsTyped ==
    ASSUME NEW P, NEW left \in Seq(P), NEW right \in Seq(P), NEW s \in MergeStates(P)
    PROVE  MergeTurn(left, right, s) \in MergeStates(P)
<1> DEFINE side == Side(left, s.l, right, s.r)
           item == Chosen(side, left[s.l], right[s.r])
<1>1. s.l \in Nat \ {0} /\ s.r \in Nat \ {0} /\ s.out \in Seq(P) BY DEF MergeStates
<1>2. Len(left) \in Nat /\ Len(right) \in Nat BY LenProperties
<1>3. CASE s.l > Len(left) /\ s.r > Len(right) BY <1>3 DEF MergeTurn
<1>4. CASE ~(s.l > Len(left) /\ s.r > Len(right))
  <2>1. /\ side \in {"left", "right", "both"}
        /\ side \in {"left", "both"} => s.l <= Len(left)
        /\ side \in {"right", "both"} => s.r <= Len(right)
    BY <1>1, <1>2, <1>4, SideIsOpen
  <2>2. side = "left" => left[s.l] \in P BY <1>1, <1>2, <2>1, ElementOfSeq
  <2>3. side \in {"right", "both"} => right[s.r] \in P BY <1>1, <1>2, <2>1, ElementOfSeq
  <2>4. MergeTurn(left, right, s) =
           [l |-> IF side \in {"left", "both"} THEN s.l + 1 ELSE s.l,
            r |-> IF side \in {"right", "both"} THEN s.r + 1 ELSE s.r,
            out |-> Insert(s.out, item)]
    BY <1>4 DEF MergeTurn
  <2> HIDE DEF side
  <2>5. item \in P BY <2>1, <2>2, <2>3 DEF Chosen
  <2> HIDE DEF item
  <2>6. Insert(s.out, item) \in Seq(P) BY <1>1, <2>5, InsertIsTyped
  <2>7. /\ (IF side \in {"left", "both"} THEN s.l + 1 ELSE s.l) \in Nat \ {0}
        /\ (IF side \in {"right", "both"} THEN s.r + 1 ELSE s.r) \in Nat \ {0}
    BY <1>1
  <2> QED BY <2>4, <2>6, <2>7 DEF MergeStates
<1> QED BY <1>3, <1>4

\* The loop of overwriting_merge, turn by turn.
LEMMA MergingTurns ==
    ASSUME NEW P, NEW left \in Seq(P), NEW right \in Seq(P)
    PROVE  /\ Merging(left, right)[0] = [l |-> 1, r |-> 1, out |-> <<>>]
           /\ \A k \in 1..Len(left) + Len(right) :
                  Merging(left, right)[k] = MergeTurn(left, right, Merging(left, right)[k - 1])
           /\ \A k \in 0..Len(left) + Len(right) : Merging(left, right)[k] \in MergeStates(P)
<1> DEFINE n == Len(left) + Len(right)
           x == [l |-> 1, r |-> 1, out |-> <<>>]
           S == MergeStates(P)
           turn == [s \in S |-> MergeTurn(left, right, s)]
           step == [k \in 1..n |-> turn]
           Turns(g) == [k \in 0..n |-> IF k = 0 THEN x ELSE MergeTurn(left, right, g[k - 1])]
           c == Merging(left, right)
<1>1. n \in Nat BY LenProperties
<1>2. x \in S BY EmptySeq DEF MergeStates
<1>3. turn \in [S -> S] BY MergeTurnIsTyped
<1>4. c = CHOOSE g : g = Turns(g) BY DEF Merging
<1> HIDE DEF n, x, turn, S, c
<1>5. step \in [1..n -> [S -> S]] BY <1>3
<1> HIDE DEF step
<1>6. PICK f : IsLoop(f, S, n, x, step) BY <1>1, <1>2, <1>5, Loop
<1>7. f \in [0..n -> S] /\ f[0] = x /\ \A k \in 1..n : f[k] = step[k][f[k - 1]]
  BY <1>6 DEF IsLoop
<1>8. \A k \in 1..n : f[k] = MergeTurn(left, right, f[k - 1])
  <2> SUFFICES ASSUME NEW k \in 1..n PROVE step[k][f[k - 1]] = MergeTurn(left, right, f[k - 1])
    BY <1>7
  <2>1. k - 1 \in 0..n BY <1>1
  <2>2. f[k - 1] \in S BY <1>7, <2>1
  <2> QED BY <2>2 DEF step, turn
<1>9. f = Turns(f)
  <2>1. \A k \in 0..n : f[k] = IF k = 0 THEN x ELSE MergeTurn(left, right, f[k - 1])
    <3> SUFFICES ASSUME NEW k \in 0..n
                 PROVE  f[k] = IF k = 0 THEN x ELSE MergeTurn(left, right, f[k - 1])
      OBVIOUS
    <3>1. k # 0 => k \in 1..n BY <1>1
    <3> QED BY <1>7, <1>8, <3>1
  <2>2. f = [k \in 0..n |-> f[k]] BY <1>7
  <2> QED BY <2>1, <2>2
<1>10. c = Turns(c) BY <1>4, <1>9
<1>11. 0 \in 0..n /\ \A k \in 1..n : k \in 0..n /\ k # 0 /\ k - 1 \in 0..n BY <1>1
<1>12. c[0] = x /\ \A k \in 1..n : c[k] = MergeTurn(left, right, c[k - 1])
  BY <1>10, <1>11
<1> DEFINE T == {k \in 0..n : c[k] \in S}
<1>13. 0 \in T BY <1>2, <1>11, <1>12
<1>14. ASSUME NEW k \in 1..n, k - 1 \in T PROVE k \in T
  BY <1>11, <1>12, <1>14, MergeTurnIsTyped DEF S
<1> HIDE DEF T
<1>15. 0..n \subseteq T BY <1>1, <1>13, <1>14, UpTo
<1>16. \A k \in 0..n : c[k] \in S BY <1>15 DEF T
<1> QED BY <1>12, <1>16 DEF n, x, S, c

LEMMA MergeIsTyped ==
    ASSUME NEW P, NEW left \in Seq(P), NEW right \in Seq(P)
    PROVE  OverwritingMerge(left, right) \in Seq(P)
<1>1. Len(left) + Len(right) \in 0..Len(left) + Len(right) BY LenProperties
<1>2. Merging(left, right)[Len(left) + Len(right)] \in MergeStates(P)
  BY <1>1, MergingTurns
<1> QED BY <1>2 DEF OverwritingMerge, MergeStates

-----------------------------------------------------------------------------
(* The passes over the array. *)

\* What is merged is filled up with holes.
LEMMA PaddedIsTyped ==
    ASSUME NEW P, Hole \in P, NEW props \in Seq(P), NEW size \in Int
    PROVE  /\ Padded(props, size) \in Seq(P)
           /\ Len(Padded(props, size)) = IF size > Len(props) THEN size ELSE Len(props)
           /\ \A i \in 1..Len(props) : Padded(props, size)[i] = props[i]
           /\ \A i \in Len(props) + 1..size : Padded(props, size)[i] = Hole
<1> DEFINE n == size - Len(props)
           holes == [i \in 1..n |-> Hole]
<1>1. Len(props) \in Nat /\ n \in Int BY LenProperties
<1>2. /\ holes \in Seq(P) /\ Len(holes) = IF n > 0 THEN n ELSE 0
      /\ \A i \in 1..n : holes[i] = Hole
  <2> HIDE DEF n
  <2>1. \A i \in 1..n : holes[i] = Hole OBVIOUS
  <2>2. CASE n >= 0
    <3>1. n \in Nat /\ \A i \in 1..n : Hole \in P BY <1>1, <2>2
    <3>2. holes \in Seq(P) /\ Len(holes) = n BY <3>1, IsASeq
    <3> HIDE DEF holes
    <3> QED BY <1>1, <2>1, <2>2, <3>2
  <2>3. CASE n < 0
    <3>1. \A i : i \in 1..n <=> i \in 1..0 BY <1>1, <2>3
    <3>2. 1..n = 1..0 BY <3>1
    <3>3. holes = [i \in 1..0 |-> Hole] BY <3>2
    <3>4. [i \in 1..0 |-> Hole] \in Seq(P) /\ Len([i \in 1..0 |-> Hole]) = 0 BY IsASeq
    <3>5. holes \in Seq(P) /\ Len(holes) = 0 BY <3>3, <3>4
    <3> HIDE DEF holes
    <3> QED BY <1>1, <2>1, <2>3, <3>5
  <2> HIDE DEF holes
  <2> QED BY <1>1, <2>2, <2>3
<1>3. Padded(props, size) = props \o holes BY DEF Padded
<1> HIDE DEF holes
<1>4. /\ props \o holes \in Seq(P) /\ Len(props \o holes) = Len(props) + Len(holes)
      /\ \A i \in 1..Len(props) + Len(holes) :
            (props \o holes)[i] = IF i <= Len(props) THEN props[i] ELSE holes[i - Len(props)]
  BY <1>2, ConcatProperties
<1>5. \A i \in 1..Len(props) : i \in 1..Len(props) + Len(holes) /\ i <= Len(props)
  BY <1>1, <1>2
<1>6. \A i \in Len(props) + 1..size : /\ i \in 1..Len(props) + Len(holes)
                                      /\ ~(i <= Len(props)) /\ i - Len(props) \in 1..n
  BY <1>1, <1>2
<1> QED BY <1>1, <1>2, <1>3, <1>4, <1>5, <1>6

\* The part of a sequence behind a and up to b.
Part(s, a, b) == SubSeq(s, a + 1, b)

LEMMA PartIsTyped ==
    ASSUME NEW P, NEW s \in Seq(P), NEW a \in Nat, NEW b \in Nat, b <= Len(s)
    PROVE  /\ Part(s, a, b) \in Seq(P)
           /\ Len(Part(s, a, b)) = IF a < b THEN b - a ELSE 0
           /\ \A i \in 1..b - a : Part(s, a, b)[i] = s[a + i]
<1>1. Len(s) \in Nat BY LenProperties
<1>2. \A i \in a + 1..b : s[i] \in P BY <1>1, ElementOfSeq
<1>3. /\ SubSeq(s, a + 1, b) \in Seq(P)
      /\ Len(SubSeq(s, a + 1, b)) = IF a + 1 <= b THEN b - (a + 1) + 1 ELSE 0
      /\ \A i \in 1..b - (a + 1) + 1 : SubSeq(s, a + 1, b)[i] = s[a + 1 + i - 1]
  BY <1>2, SubSeqProperties
<1>4. b - (a + 1) + 1 = b - a OBVIOUS
<1>5. \A i \in 1..b - a : a + 1 + i - 1 = a + i OBVIOUS
<1> QED BY <1>3, <1>4, <1>5 DEF Part

UpToLen(s, n) == IF n > Len(s) THEN Len(s) ELSE n

LEMMA WindowIsTyped ==
    ASSUME NEW P, Hole \in P, NEW props \in Seq(P), NEW wnd \in Nat, NEW i \in Nat
    PROVE  /\ Window(wnd, props, i) \in Seq(P)
           /\ Window(wnd, props, i) =
                Padded(OverwritingMerge(Part(props, i, UpToLen(props, i + wnd)),
                                        Part(props, UpToLen(props, i + wnd),
                                                    UpToLen(props, i + 2 * wnd))),
                       UpToLen(props, i + 2 * wnd) - i)
<1> DEFINE r == UpToLen(props, i + wnd)
           e == UpToLen(props, i + 2 * wnd)
           m == OverwritingMerge(Part(props, i, r), Part(props, r, e))
<1>1. Len(props) \in Nat BY LenProperties
<1>2. r \in Nat /\ e \in Nat /\ r <= Len(props) /\ e <= Len(props) /\ e - i \in Int
  BY <1>1 DEF UpToLen
<1>3. Window(wnd, props, i) = Padded(m, e - i) BY DEF Window, Part, UpToLen
<1> HIDE DEF r, e
<1>4. Part(props, i, r) \in Seq(P) /\ Part(props, r, e) \in Seq(P) BY <1>2, PartIsTyped
<1>5. m \in Seq(P) BY <1>4, MergeIsTyped
<1> HIDE DEF m
<1>6. Padded(m, e - i) \in Seq(P) BY <1>2, <1>5, PaddedIsTyped
<1> QED BY <1>3, <1>6 DEF m, r, e

WindowStates(P) == [i : Nat, out : Seq(P)]
PassStates(P) == [wnd : Nat, props : Seq(P)]

LEMMA NextWindowIsTyped ==
    ASSUME NEW P, Hole \in P, NEW props \in Seq(P), NEW wnd \in Nat, NEW s \in WindowStates(P)
    PROVE  NextWindow(wnd, props, s) \in WindowStates(P)
<1>1. s.i \in Nat /\ s.out \in Seq(P) BY DEF WindowStates
<1>2. Window(wnd, props, s.i) \in Seq(P) BY <1>1, WindowIsTyped
<1>3. s.out \o Window(wnd, props, s.i) \in Seq(P) BY <1>1, <1>2, ConcatProperties
<1>4. s.i + 2 * wnd \in Nat BY <1>1
<1> QED BY <1>3, <1>4 DEF NextWindow, WindowStates

LEMMA WindowsTurns ==
    ASSUME NEW P, Hole \in P, NEW props \in Seq(P), NEW wnd \in Nat
    PROVE  /\ Windows(wnd, props)[0] = [i |-> 0, out |-> <<>>]
           /\ \A k \in 1..Len(props) :
                  Windows(wnd, props)[k] = NextWindow(wnd, props, Windows(wnd, props)[k - 1])
           /\ \A k \in 0..Len(props) : Windows(wnd, props)[k] \in WindowStates(P)
<1> DEFINE n == Len(props)
           x == [i |-> 0, out |-> <<>>]
           S == WindowStates(P)
           step == [k \in 1..n |-> [s \in S |-> NextWindow(wnd, props, s)]]
           Turns(g) == [k \in 0..n |-> IF k = 0 THEN x ELSE NextWindow(wnd, props, g[k - 1])]
           c == Windows(wnd, props)
<1>1. n \in Nat BY LenProperties
<1>2. x \in S BY EmptySeq DEF WindowStates
<1>3. \A k \in 1..n : \A s \in S : NextWindow(wnd, props, s) \in S
  BY NextWindowIsTyped
<1>4. c = CHOOSE g : g = Turns(g) BY DEF Windows
<1> HIDE DEF n, x, S, c
<1>5. step \in [1..n -> [S -> S]] BY <1>3
<1> HIDE DEF step
<1>6. PICK f : IsLoop(f, S, n, x, step) BY <1>1, <1>2, <1>5, Loop
<1>7. f \in [0..n -> S] /\ f[0] = x /\ \A k \in 1..n : f[k] = step[k][f[k - 1]]
  BY <1>6 DEF IsLoop
<1>8. \A k \in 1..n : f[k] = NextWindow(wnd, props, f[k - 1]) /\ f[k] \in S /\ f[k - 1] \in S
  <2> SUFFICES ASSUME NEW k \in 1..n
               PROVE  /\ step[k][f[k - 1]] = NextWindow(wnd, props, f[k - 1])
                      /\ f[k] \in S /\ f[k - 1] \in S
    BY <1>7
  <2>1. k - 1 \in 0..n /\ k \in 0..n BY <1>1
  <2>2. f[k - 1] \in S /\ f[k] \in S BY <1>7, <2>1
  <2> QED BY <2>2 DEF step
<1>9. f = Turns(f)
  <2>1. \A k \in 0..n : f[k] = IF k = 0 THEN x ELSE NextWindow(wnd, props, f[k - 1])
    <3> SUFFICES ASSUME NEW k \in 0..n
                 PROVE  f[k] = IF k = 0 THEN x ELSE NextWindow(wnd, props, f[k - 1])
      OBVIOUS
    <3>1. k # 0 => k \in 1..n BY <1>1
    <3> QED BY <1>7, <1>8, <3>1
  <2>2. f = [k \in 0..n |-> f[k]] BY <1>7
  <2> QED BY <2>1, <2>2
<1>10. c = Turns(c) BY <1>4, <1>9
<1>11. 0 \in 0..n /\ \A k \in 1..n : k \in 0..n /\ k # 0 /\ k - 1 \in 0..n BY <1>1
<1>12. c[0] = x /\ \A k \in 1..n : c[k] = NextWindow(wnd, props, c[k - 1])
  BY <1>10, <1>11
<1> DEFINE T == {k \in 0..n : c[k] \in S}
<1>13. 0 \in T BY <1>2, <1>11, <1>12
<1>14. ASSUME NEW k \in 1..n, k - 1 \in T PROVE k \in T BY <1>3, <1>11, <1>12, <1>14
<1> HIDE DEF T
<1>15. 0..n \subseteq T BY <1>1, <1>13, <1>14, UpTo
<1>16. \A k \in 0..n : c[k] \in S BY <1>15 DEF T
<1> QED BY <1>12, <1>16 DEF n, x, S, c

LEMMA PassIsTyped ==
    ASSUME NEW P, Hole \in P, NEW props \in Seq(P), NEW wnd \in Nat
    PROVE  Pass(wnd, props) \in Seq(P)
<1>1. Len(props) \in 0..Len(props) BY LenProperties
<1>2. Windows(wnd, props)[Len(props)] \in WindowStates(P) BY <1>1, WindowsTurns
<1> QED BY <1>2 DEF Pass, WindowStates

LEMMA NextPassIsTyped ==
    ASSUME NEW P, Hole \in P, NEW props, NEW s \in PassStates(P)
    PROVE  NextPass(props, s) \in PassStates(P)
<1>1. s.wnd \in Nat /\ s.props \in Seq(P) /\ 2 * s.wnd \in Nat BY DEF PassStates
<1>2. Pass(s.wnd, s.props) \in Seq(P) BY <1>1, PassIsTyped
<1> QED BY <1>1, <1>2 DEF NextPass, PassStates

LEMMA PassesTurns ==
    ASSUME NEW P, Hole \in P, NEW props \in Seq(P)
    PROVE  /\ Passes(props)[0] = [wnd |-> 1, props |-> props]
           /\ \A k \in 1..Len(props) : Passes(props)[k] = NextPass(props, Passes(props)[k - 1])
           /\ \A k \in 0..Len(props) : Passes(props)[k] \in PassStates(P)
<1> DEFINE n == Len(props)
           x == [wnd |-> 1, props |-> props]
           S == PassStates(P)
           step == [k \in 1..n |-> [s \in S |-> NextPass(props, s)]]
           Turns(g) == [k \in 0..n |-> IF k = 0 THEN x ELSE NextPass(props, g[k - 1])]
           c == Passes(props)
<1>1. n \in Nat BY LenProperties
<1>2. x \in S BY DEF PassStates
<1>3. \A k \in 1..n : \A s \in S : NextPass(props, s) \in S
  BY NextPassIsTyped
<1>4. c = CHOOSE g : g = Turns(g) BY DEF Passes
<1> HIDE DEF n, x, S, c
<1>5. step \in [1..n -> [S -> S]] BY <1>3
<1> HIDE DEF step
<1>6. PICK f : IsLoop(f, S, n, x, step) BY <1>1, <1>2, <1>5, Loop
<1>7. f \in [0..n -> S] /\ f[0] = x /\ \A k \in 1..n : f[k] = step[k][f[k - 1]]
  BY <1>6 DEF IsLoop
<1>8. \A k \in 1..n : f[k] = NextPass(props, f[k - 1]) /\ f[k] \in S /\ f[k - 1] \in S
  <2> SUFFICES ASSUME NEW k \in 1..n
               PROVE  /\ step[k][f[k - 1]] = NextPass(props, f[k - 1])
                      /\ f[k] \in S /\ f[k - 1] \in S
    BY <1>7
  <2>1. k - 1 \in 0..n /\ k \in 0..n BY <1>1
  <2>2. f[k - 1] \in S /\ f[k] \in S BY <1>7, <2>1
  <2> QED BY <2>2 DEF step
<1>9. f = Turns(f)
  <2>1. \A k \in 0..n : f[k] = IF k = 0 THEN x ELSE NextPass(props, f[k - 1])
    <3> SUFFICES ASSUME NEW k \in 0..n
                 PROVE  f[k] = IF k = 0 THEN x ELSE NextPass(props, f[k - 1])
      OBVIOUS
    <3>1. k # 0 => k \in 1..n BY <1>1
    <3> QED BY <1>7, <1>8, <3>1
  <2>2. f = [k \in 0..n |-> f[k]] BY <1>7
  <2> QED BY <2>1, <2>2
<1>10. c = Turns(c) BY <1>4, <1>9
<1>11. 0 \in 0..n /\ \A k \in 1..n : k \in 0..n /\ k # 0 /\ k - 1 \in 0..n BY <1>1
<1>12. c[0] = x /\ \A k \in 1..n : c[k] = NextPass(props, c[k - 1])
  BY <1>10, <1>11
<1> DEFINE T == {k \in 0..n : c[k] \in S}
<1>13. 0 \in T BY <1>2, <1>11, <1>12
<1>14. ASSUME NEW k \in 1..n, k - 1 \in T PROVE k \in T BY <1>3, <1>11, <1>12, <1>14
<1> HIDE DEF T
<1>15. 0..n \subseteq T BY <1>1, <1>13, <1>14, UpTo
<1>16. \A k \in 0..n : c[k] \in S BY <1>15 DEF T
<1> QED BY <1>12, <1>16 DEF n, x, S, c

LEMMA SortedIsTyped ==
    ASSUME NEW P, Hole \in P, NEW props \in Seq(P)
    PROVE  Sorted(props) \in Seq(P)
<1>1. Len(props) \in 0..Len(props) BY LenProperties
<1>2. Passes(props)[Len(props)] \in PassStates(P) BY <1>1, PassesTurns
<1> QED BY <1>2 DEF Sorted, PassStates

Named(P) == {p \in P : p.name # NoName}

LEMMA KeepIsTyped ==
    ASSUME NEW P, NEW sorted \in Seq(P), NEW k \in 1..Len(sorted), NEW s \in Seq(Named(P))
    PROVE  Keep(sorted, k, s) \in Seq(Named(P))
<1>1. sorted[k] \in P BY ElementOfSeq
<1>2. sorted[k].name # NoName => Append(s, sorted[k]) \in Seq(Named(P))
  BY <1>1, AppendProperties DEF Named
<1> QED BY <1>2 DEF Keep

LEMMA KeptTurns ==
    ASSUME NEW P, NEW sorted \in Seq(P)
    PROVE  /\ Kept(sorted)[0] = <<>>
           /\ \A k \in 1..Len(sorted) : Kept(sorted)[k] = Keep(sorted, k, Kept(sorted)[k - 1])
           /\ \A k \in 0..Len(sorted) : Kept(sorted)[k] \in Seq(Named(P))
<1> DEFINE n == Len(sorted)
           x == <<>>
           S == Seq(Named(P))
           step == [k \in 1..n |-> [s \in S |-> Keep(sorted, k, s)]]
           Turns(g) == [k \in 0..n |-> IF k = 0 THEN x ELSE Keep(sorted, k, g[k - 1])]
           c == Kept(sorted)
<1>1. n \in Nat BY LenProperties
<1>2. x \in S BY EmptySeq
<1>3. \A k \in 1..n : \A s \in S : Keep(sorted, k, s) \in S
  BY KeepIsTyped
<1>4. c = CHOOSE g : g = Turns(g) BY DEF Kept
<1> HIDE DEF n, x, S, c
<1>5. step \in [1..n -> [S -> S]] BY <1>3
<1> HIDE DEF step
<1>6. PICK f : IsLoop(f, S, n, x, step) BY <1>1, <1>2, <1>5, Loop
<1>7. f \in [0..n -> S] /\ f[0] = x /\ \A k \in 1..n : f[k] = step[k][f[k - 1]]
  BY <1>6 DEF IsLoop
<1>8. \A k \in 1..n : f[k] = Keep(sorted, k, f[k - 1]) /\ f[k] \in S /\ f[k - 1] \in S
  <2> SUFFICES ASSUME NEW k \in 1..n
               PROVE  /\ step[k][f[k - 1]] = Keep(sorted, k, f[k - 1])
                      /\ f[k] \in S /\ f[k - 1] \in S
    BY <1>7
  <2>1. k - 1 \in 0..n /\ k \in 0..n BY <1>1
  <2>2. f[k - 1] \in S /\ f[k] \in S BY <1>7, <2>1
  <2> QED BY <2>2 DEF step
<1>9. f = Turns(f)
  <2>1. \A k \in 0..n : f[k] = IF k = 0 THEN x ELSE Keep(sorted, k, f[k - 1])
    <3> SUFFICES ASSUME NEW k \in 0..n
                 PROVE  f[k] = IF k = 0 THEN x ELSE Keep(sorted, k, f[k - 1])
      OBVIOUS
    <3>1. k # 0 => k \in 1..n BY <1>1
    <3> QED BY <1>7, <1>8, <3>1
  <2>2. f = [k \in 0..n |-> f[k]] BY <1>7
  <2> QED BY <2>1, <2>2
<1>10. c = Turns(c) BY <1>4, <1>9
<1>11. 0 \in 0..n /\ \A k \in 1..n : k \in 0..n /\ k # 0 /\ k - 1 \in 0..n BY <1>1
<1>12. c[0] = x /\ \A k \in 1..n : c[k] = Keep(sorted, k, c[k - 1])
  BY <1>10, <1>11
<1> DEFINE T == {k \in 0..n : c[k] \in S}
<1>13. 0 \in T BY <1>2, <1>11, <1>12
<1>14. ASSUME NEW k \in 1..n, k - 1 \in T PROVE k \in T BY <1>3, <1>11, <1>12, <1>14
<1> HIDE DEF T
<1>15. 0..n \subseteq T BY <1>1, <1>13, <1>14, UpTo
<1>16. \A k \in 0..n : c[k] \in S BY <1>15 DEF T
<1> QED BY <1>12, <1>16 DEF n, x, S, c

LEMMA EmissionIsTyped ==
    ASSUME NEW P, Hole \in P, NEW props \in Seq(P)
    PROVE  Emission(props) \in Seq(Named(P))
<1>1. Sorted(props) \in Seq(P) BY SortedIsTyped
<1>2. Len(Sorted(props)) \in 0..Len(Sorted(props)) BY <1>1, LenProperties
<1> QED BY <1>1, <1>2, KeptTurns DEF Emission

-----------------------------------------------------------------------------
(* What merging does.  A cell of the array is a property or a hole. *)

IsHole(p) == p.name = NoName

\* Strictly in order, with every hole behind.
Ordered(s) ==
    \A i, j \in 1..Len(s) : i < j /\ ~IsHole(s[j]) => ~IsHole(s[i]) /\ s[i].name < s[j].name

\* p comes before every property of s from the n-th on.
Precedes(p, s, n) ==
    \A i \in n..Len(s) : ~IsHole(s[i]) => ~IsHole(p) /\ p.name < s[i].name

\* Every property that is put out is the one of its name that was given last.
From(out, left, right) ==
    \A j \in 1..Len(out) : ~IsHole(out[j]) =>
        \/ \E i \in 1..Len(right) : out[j] = right[i]
        \/ /\ \E i \in 1..Len(left) : out[j] = left[i]
           /\ \A i \in 1..Len(right) : right[i].name # out[j].name

\* The first n of s are all among what is put out.
Found(s, n, out) ==
    \A i \in 1..n : ~IsHole(s[i]) => \E j \in 1..Len(out) : out[j].name = s[i].name

Merged(left, right, s) ==
    /\ s.l <= Len(left) + 1 /\ s.r <= Len(right) + 1
    /\ Len(s.out) <= (s.l - 1) + (s.r - 1)
    /\ Ordered(s.out)
    /\ From(s.out, left, right)
    /\ Found(left, s.l - 1, s.out) /\ Found(right, s.r - 1, s.out)
    /\ \A j \in 1..Len(s.out) : Precedes(s.out[j], left, s.l) /\ Precedes(s.out[j], right, s.r)

\* Behind smaller names nothing is overwritten.
LEMMA InsertAppends ==
    ASSUME NEW P, \A p \in P : p.name \in Nat, NEW out \in Seq(P), NEW item \in P,
           ~IsHole(item) => \A j \in 1..Len(out) : out[j].name < item.name
    PROVE  Insert(out, item) = Append(out, item)
<1> SUFFICES ASSUME out # <<>> PROVE Compare(Last(out).name, item.name) # 0
  BY DEF Insert
<1>1. Len(out) \in Nat /\ Len(out) > 0 BY LenProperties, EmptySeq
<1>2. Last(out) = out[Len(out)] /\ Len(out) \in 1..Len(out) BY <1>1 DEF Last
<1>3. out[Len(out)] \in P BY <1>2, ElementOfSeq
<1> DEFINE a == Last(out).name
           b == item.name
<1>4. a \in Nat /\ b \in Nat /\ (b # NoName => a < b)
  BY <1>2, <1>3 DEF IsHole
<1> HIDE DEF a, b
<1>5. CASE a = NoName BY <1>5 DEF Compare, a, b
<1>6. CASE a # NoName /\ b = NoName BY <1>6 DEF Compare, a, b
<1>7. CASE a # NoName /\ b # NoName
  <2>1. Compare(a, b) = a - b BY <1>7 DEF Compare
  <2> QED BY <1>4, <1>7, <2>1 DEF a, b
<1> QED BY <1>5, <1>6, <1>7

\* One more item: it comes behind what is put out and before what is left.
LEMMA OneMore ==
    ASSUME NEW P, \A p \in P : p.name \in Nat, NEW left \in Seq(P), NEW right \in Seq(P),
           NEW s \in MergeStates(P), Merged(left, right, s), NEW item \in P,
           ~IsHole(item) =>
               \A j \in 1..Len(s.out) : ~IsHole(s.out[j]) /\ s.out[j].name < item.name,
           From(<<item>>, left, right),
           NEW l \in {s.l, s.l + 1}, NEW r \in {s.r, s.r + 1},
           l + r >= s.l + s.r + 1, l <= Len(left) + 1, r <= Len(right) + 1,
           Precedes(item, left, l), Precedes(item, right, r),
           l # s.l => (~IsHole(left[s.l]) => left[s.l].name = item.name),
           r # s.r => (~IsHole(right[s.r]) => right[s.r].name = item.name)
    PROVE  Merged(left, right, [l |-> l, r |-> r, out |-> Insert(s.out, item)])
<1> DEFINE o == s.out
           out == Append(o, item)
           n == Len(o)
<1>1. s.l \in Nat \ {0} /\ s.r \in Nat \ {0} /\ o \in Seq(P) BY DEF MergeStates
<1>2. n \in Nat /\ Len(left) \in Nat /\ Len(right) \in Nat BY <1>1, LenProperties
<1>3. Insert(o, item) = out BY <1>1, InsertAppends
<1>4. /\ out \in Seq(P) /\ Len(out) = n + 1 /\ \A j \in 1..n : out[j] = o[j]
      /\ out[n + 1] = item
  BY <1>1, AppendProperties
<1>5. \A j \in 1..n + 1 : j \in 1..n \/ j = n + 1 BY <1>2
<1>6. /\ \A j \in 1..n : o[j].name \in Nat
      /\ item.name \in Nat
  BY <1>1, ElementOfSeq
<1> DEFINE t == [l |-> l, r |-> r, out |-> out]
<1>7. t.l = l /\ t.r = r /\ t.out = out OBVIOUS
<1> HIDE DEF t, out, n
<1>8. Ordered(out)
  <2> SUFFICES ASSUME NEW i \in 1..n + 1, NEW j \in 1..n + 1, i < j, ~IsHole(out[j])
               PROVE  ~IsHole(out[i]) /\ out[i].name < out[j].name
    BY <1>4 DEF Ordered
  <2>1. i \in 1..n BY <1>2
  <2>2. CASE j \in 1..n BY <1>4, <2>1, <2>2 DEF Merged, Ordered, n
  <2>3. CASE j = n + 1 BY <1>4, <2>1, <2>3 DEF n
  <2> QED BY <1>5, <2>2, <2>3
<1>9. From(out, left, right)
  <2> SUFFICES ASSUME NEW j \in 1..n + 1, ~IsHole(out[j])
               PROVE  \/ \E i \in 1..Len(right) : out[j] = right[i]
                      \/ /\ \E i \in 1..Len(left) : out[j] = left[i]
                         /\ \A i \in 1..Len(right) : right[i].name # out[j].name
    BY <1>4 DEF From
  <2>1. CASE j \in 1..n
    <3>1. out[j] = o[j] /\ ~IsHole(o[j]) BY <1>4, <2>1
    <3>2. From(o, left, right) /\ j \in 1..Len(o) BY <2>1 DEF Merged, n
    <3> HIDE DEF o
    <3>3. \/ \E i \in 1..Len(right) : o[j] = right[i]
          \/ /\ \E i \in 1..Len(left) : o[j] = left[i]
             /\ \A i \in 1..Len(right) : right[i].name # o[j].name
      BY <3>1, <3>2 DEF From
    <3> QED BY <3>1, <3>3
  <2>2. CASE j = n + 1
    <3>1. 1 \in 1..Len(<<item>>) /\ <<item>>[1] = item OBVIOUS
    <3> QED BY <1>4, <2>2, <3>1 DEF From
  <2> QED BY <1>5, <2>1, <2>2
<1>10. n + 1 \in 1..n + 1 /\ \A j \in 1..n : j \in 1..n + 1 BY <1>2
<1>11. Found(left, l - 1, out)
  <2> SUFFICES ASSUME NEW i \in 1..l - 1, ~IsHole(left[i])
               PROVE  \E j \in 1..n + 1 : out[j].name = left[i].name
    BY <1>4 DEF Found
  <2>1. CASE i \in 1..s.l - 1
    <3>1. PICK j \in 1..n : o[j].name = left[i].name BY <2>1 DEF Merged, Found, n
    <3> QED BY <1>4, <1>10, <3>1
  <2>2. CASE i \notin 1..s.l - 1
    <3>1. i = s.l /\ l # s.l BY SMTT(60), <1>1, <2>2
    <3> QED BY <1>4, <1>10, <3>1
  <2> QED BY <2>1, <2>2
<1>12. Found(right, r - 1, out)
  <2> SUFFICES ASSUME NEW i \in 1..r - 1, ~IsHole(right[i])
               PROVE  \E j \in 1..n + 1 : out[j].name = right[i].name
    BY <1>4 DEF Found
  <2>1. CASE i \in 1..s.r - 1
    <3>1. PICK j \in 1..n : o[j].name = right[i].name BY <2>1 DEF Merged, Found, n
    <3> QED BY <1>4, <1>10, <3>1
  <2>2. CASE i \notin 1..s.r - 1
    <3>1. i = s.r /\ r # s.r BY SMTT(60), <1>1, <2>2
    <3> QED BY <1>4, <1>10, <3>1
  <2> QED BY <2>1, <2>2
<1>13. \A j \in 1..n + 1 : Precedes(out[j], left, l) /\ Precedes(out[j], right, r)
  <2> SUFFICES ASSUME NEW j \in 1..n + 1
               PROVE  Precedes(out[j], left, l) /\ Precedes(out[j], right, r)
    OBVIOUS
  <2> HIDE DEF o
  <2>1. CASE j \in 1..n
    <3>1. Precedes(o[j], left, s.l) /\ Precedes(o[j], right, s.r)
      BY <2>1 DEF Merged, n, o
    <3>2. /\ \A i \in l..Len(left) : i \in s.l..Len(left)
          /\ \A i \in r..Len(right) : i \in s.r..Len(right)
      <4> DEFINE a == s.l
                 b == s.r
                 m == Len(left)
                 k == Len(right)
      <4>1. a \in Nat /\ b \in Nat /\ m \in Nat /\ k \in Nat BY <1>1, <1>2
      <4>2. l \in {a, a + 1} /\ r \in {b, b + 1} OBVIOUS
      <4> HIDE DEF a, b, m, k
      <4>3. /\ \A i \in l..m : i \in a..m
            /\ \A i \in r..k : i \in b..k
        BY <4>1, <4>2
      <4> QED BY <4>3 DEF a, b, m, k
    <3>3. Precedes(o[j], left, l) /\ Precedes(o[j], right, r) BY <3>1, <3>2 DEF Precedes
    <3>4. out[j] = o[j] BY <1>4, <2>1
    <3> QED BY <3>3, <3>4
  <2>2. CASE j = n + 1 BY <1>4, <2>2
  <2> QED BY <1>5, <2>1, <2>2
<1>14. n + 1 <= (l - 1) + (r - 1)
  <2> DEFINE a == s.l
             b == s.r
  <2>1. n <= (a - 1) + (b - 1) BY DEF Merged, n
  <2>2. a \in Nat /\ b \in Nat /\ l \in {a, a + 1} /\ r \in {b, b + 1} BY <1>1
  <2>3. l + r >= a + b + 1 OBVIOUS
  <2> HIDE DEF a, b, o
  <2> QED BY <1>2, <2>1, <2>2, <2>3
<1>15. Merged(left, right, t)
  BY <1>4, <1>7, <1>8, <1>9, <1>11, <1>12, <1>13, <1>14 DEF Merged
<1> QED BY <1>3, <1>15 DEF t

\* kdl_str_cmp with holes: they are behind everything, and never the same as anything.
LEMMA Compares ==
    ASSUME NEW a \in Nat, NEW b \in Nat
    PROVE  /\ Compare(a, b) \in Int
           /\ Compare(a, b) < 0 => a # NoName /\ (b # NoName => a < b)
           /\ Compare(a, b) > 0 => a = NoName \/ (b # NoName /\ b < a)
           /\ ~(Compare(a, b) < 0) /\ ~(Compare(a, b) > 0) => a = b /\ a # NoName
<1>1. CASE a = NoName
  <2>1. Compare(a, b) = 1 BY <1>1 DEF Compare
  <2> QED BY <1>1, <2>1
<1>2. CASE a # NoName /\ b = NoName
  <2>1. Compare(a, b) = -1 BY <1>2 DEF Compare
  <2> QED BY <1>2, <2>1
<1>3. CASE a # NoName /\ b # NoName
  <2>1. Compare(a, b) = a - b BY <1>3 DEF Compare
  <2> QED BY <1>3, <2>1
<1> QED BY <1>1, <1>2, <1>3

\* Of two neighbours in order the first comes before all that the second comes before.
LEMMA OrderedPrecedes ==
    ASSUME NEW P, \A p \in P : p.name \in Nat, NEW s \in Seq(P), Ordered(s),
           NEW n \in 1..Len(s)
    PROVE  Precedes(s[n], s, n + 1)
<1>1. Len(s) \in Nat BY LenProperties
<1>2. \A i \in n + 1..Len(s) : i \in 1..Len(s) /\ n < i BY <1>1
<1> QED BY <1>2 DEF Precedes, Ordered

LEMMA PrecedesAllOf ==
    ASSUME NEW P, \A p \in P : p.name \in Nat, NEW s \in Seq(P), Ordered(s),
           NEW n \in 1..Len(s), NEW p \in P,
           ~IsHole(s[n]) => ~IsHole(p) /\ p.name < s[n].name
    PROVE  Precedes(p, s, n)
<1>1. Len(s) \in Nat BY LenProperties
<1> SUFFICES ASSUME NEW i \in n..Len(s), ~IsHole(s[i])
             PROVE  ~IsHole(p) /\ p.name < s[i].name
  BY DEF Precedes
<1>2. i \in 1..Len(s) /\ s[i] \in P /\ s[n] \in P BY <1>1, ElementOfSeq
<1>3. CASE i = n BY <1>3
<1>4. CASE i # n
  <2>1. n < i BY <1>4
  <2>2. ~IsHole(s[n]) /\ s[n].name < s[i].name BY <1>2, <2>1 DEF Ordered
  <2>3. p.name \in Nat /\ s[n].name \in Nat /\ s[i].name \in Nat BY <1>2
  <2> QED BY <2>2, <2>3
<1> QED BY <1>3, <1>4

LEMMA MergeTurnKeeps ==
    ASSUME NEW P, \A p \in P : p.name \in Nat, NEW left \in Seq(P), NEW right \in Seq(P),
           Ordered(left), Ordered(right),
           NEW s \in MergeStates(P), Merged(left, right, s)
    PROVE  /\ Merged(left, right, MergeTurn(left, right, s))
           /\ \/ MergeTurn(left, right, s) = s /\ s.l > Len(left) /\ s.r > Len(right)
              \/ MergeTurn(left, right, s).l + MergeTurn(left, right, s).r >= s.l + s.r + 1
<1>1. /\ s.l \in Nat \ {0} /\ s.r \in Nat \ {0} /\ s.out \in Seq(P)
      /\ Len(left) \in Nat /\ Len(right) \in Nat /\ Len(s.out) \in Nat
  BY LenProperties DEF MergeStates
<1>2. CASE s.l > Len(left) /\ s.r > Len(right) BY <1>2 DEF MergeTurn
<1>3. CASE ~(s.l > Len(left) /\ s.r > Len(right))
  <2> DEFINE side == Side(left, s.l, right, s.r)
             item == Chosen(side, left[s.l], right[s.r])
             l == IF side \in {"left", "both"} THEN s.l + 1 ELSE s.l
             r == IF side \in {"right", "both"} THEN s.r + 1 ELSE s.r
             w == MergeTurn(left, right, s)
             c == Compare(left[s.l].name, right[s.r].name)
  <2>1. /\ side \in {"left", "right", "both"}
        /\ side \in {"left", "both"} => s.l <= Len(left)
        /\ side \in {"right", "both"} => s.r <= Len(right)
    BY <1>1, <1>3, SideIsOpen
  <2>2. w = [l |-> l, r |-> r, out |-> Insert(s.out, item)] BY <1>3 DEF MergeTurn
  <2>3. /\ \A j \in 1..Len(s.out) : s.out[j] \in P /\ s.out[j].name \in Nat
        /\ s.l <= Len(left) => left[s.l] \in P /\ left[s.l].name \in Nat
        /\ s.r <= Len(right) => right[s.r] \in P /\ right[s.r].name \in Nat
    BY <1>1, ElementOfSeq
  <2>12. s.l <= Len(left) /\ s.r <= Len(right) =>
            LET a == left[s.l].name
                b == right[s.r].name
            IN /\ Compare(a, b) \in Int
               /\ Compare(a, b) < 0 => a # NoName /\ (b # NoName => a < b)
               /\ Compare(a, b) > 0 => a = NoName \/ (b # NoName /\ b < a)
               /\ ~(Compare(a, b) < 0) /\ ~(Compare(a, b) > 0) => a = b /\ a # NoName
    BY <2>3, Compares
  <2>4. s.l <= Len(left) /\ s.r <= Len(right) =>
           side = IF c < 0 THEN "left" ELSE IF c > 0 THEN "right" ELSE "both"
    <3> SUFFICES ASSUME s.l <= Len(left), s.r <= Len(right)
                 PROVE  side = IF c < 0 THEN "left" ELSE IF c > 0 THEN "right" ELSE "both"
      OBVIOUS
    <3>1. c \in Int BY <2>12
    <3>2. side = CASE c < 0 -> "left" [] c > 0 -> "right" [] OTHER -> "both"
      BY <1>1 DEF Side
    <3> HIDE DEF c, side
    <3> QED BY <3>1, <3>2
  <2>5. \A j \in 1..Len(s.out) : Precedes(s.out[j], left, s.l) /\ Precedes(s.out[j], right, s.r)
    BY DEF Merged
  <2>6. /\ s.l <= Len(left) => s.l \in 1..Len(left) /\ s.l \in s.l..Len(left)
        /\ s.r <= Len(right) => s.r \in 1..Len(right) /\ s.r \in s.r..Len(right)
    BY <1>1
  <2>7. w.l = l /\ w.r = r BY <2>2
  <2> HIDE DEF side, w
  <2>8. l \in {s.l, s.l + 1} /\ r \in {s.r, s.r + 1} /\ l + r >= s.l + s.r + 1
    BY <1>1, <2>1
  <2>9. l <= Len(left) + 1 /\ r <= Len(right) + 1 BY SMTT(60), <1>1, <2>1 DEF Merged
  <2>10. CASE side = "left"
    <3>1. s.l <= Len(left) /\ item = left[s.l] /\ l = s.l + 1 /\ r = s.r
      BY <2>1, <2>10 DEF Chosen
    <3>2. Precedes(item, left, s.l + 1) BY <2>6, <3>1, OrderedPrecedes
    <3>3. Precedes(item, right, s.r)
      <4>1. CASE s.r > Len(right) BY <1>1, <4>1 DEF Precedes
      <4>2. CASE s.r <= Len(right)
        <5>1. c < 0 BY <2>4, <2>10, <3>1, <4>2
        <5>2. left[s.l].name # NoName
              /\ (right[s.r].name # NoName => left[s.l].name < right[s.r].name)
          BY <2>12, <3>1, <4>2, <5>1
        <5> QED BY <2>3, <2>6, <3>1, <4>2, <5>2, PrecedesAllOf DEF IsHole
      <4> QED BY <1>1, <4>1, <4>2
    <3>4. ~IsHole(item) => \A i \in 1..Len(right) : right[i].name # item.name
      <4> SUFFICES ASSUME ~IsHole(item), NEW i \in 1..Len(right), right[i].name = item.name
                   PROVE  FALSE
        OBVIOUS
      <4>1. ~IsHole(right[i]) BY DEF IsHole
      <4>2. CASE i < s.r
        <5>1. i \in 1..s.r - 1 BY <1>1, <4>2
        <5>2. PICK j \in 1..Len(s.out) : s.out[j].name = right[i].name
          BY <4>1, <5>1 DEF Merged, Found
        <5>3. s.out[j].name < left[s.l].name BY <2>5, <2>6, <3>1 DEF Precedes
        <5> QED BY <2>3, <3>1, <5>2, <5>3
      <4>3. CASE ~(i < s.r)
        <5>1. i \in s.r..Len(right) BY <1>1, <4>3
        <5>2. item.name < right[i].name BY <3>3, <4>1, <5>1 DEF Precedes
        <5> QED BY <2>3, <3>1, <5>2
      <4> QED BY <4>2, <4>3
    <3>5. From(<<item>>, left, right)
      <4>1. Len(<<item>>) = 1 /\ <<item>>[1] = item OBVIOUS
      <4> HIDE DEF item
      <4>2. \A j \in 1..1 : j = 1 OBVIOUS
      <4>3. \E i \in 1..Len(left) : item = left[i] BY <2>6, <3>1
      <4> QED BY <3>4, <4>1, <4>2, <4>3 DEF From
    <3>6. ~IsHole(item) =>
             \A j \in 1..Len(s.out) : ~IsHole(s.out[j]) /\ s.out[j].name < item.name
      BY <2>5, <2>6, <3>1 DEF Precedes
    <3>7. item \in P BY <2>3, <3>1
    <3> HIDE DEF item, l, r
    <3>8. Merged(left, right, [l |-> l, r |-> r, out |-> Insert(s.out, item)])
      BY <1>1, <2>8, <2>9, <3>1, <3>2, <3>3, <3>5, <3>6, <3>7, OneMore
    <3> QED BY <2>2, <2>7, <2>8, <3>8 DEF w
  <2>11. CASE side \in {"right", "both"}
    <3>1. s.r <= Len(right) /\ item = right[s.r] /\ r = s.r + 1 BY <2>1, <2>11 DEF Chosen
    <3>2. Precedes(item, right, s.r + 1) BY <2>6, <3>1, OrderedPrecedes
    <3>3. /\ Precedes(item, left, l)
          /\ l # s.l => (~IsHole(left[s.l]) => left[s.l].name = item.name)
      <4>1. CASE side = "right" /\ s.l > Len(left)
        <5>1. l = s.l BY <4>1
        <5> QED BY <1>1, <4>1, <5>1 DEF Precedes
      <4>2. CASE side = "right" /\ s.l <= Len(left)
        <5>1. l = s.l BY <4>2
        <5>2. c > 0 /\ ~(c < 0) BY <2>4, <3>1, <4>2
        <5>3. left[s.l].name = NoName
              \/ (right[s.r].name # NoName /\ right[s.r].name < left[s.l].name)
          BY <2>12, <3>1, <4>2, <5>2
        <5>4. Precedes(item, left, s.l)
          BY <2>3, <2>6, <3>1, <4>2, <5>3, PrecedesAllOf DEF IsHole
        <5> QED BY <5>1, <5>4
      <4>3. CASE side = "both"
        <5>1. l = s.l + 1 /\ s.l <= Len(left) BY <2>1, <4>3
        <5>2. ~(c > 0) /\ ~(c < 0) BY <2>4, <3>1, <4>3, <5>1
        <5>3. left[s.l].name = right[s.r].name /\ left[s.l].name # NoName
          BY <2>12, <3>1, <5>1, <5>2
        <5>4. Precedes(left[s.l], left, s.l + 1) BY <2>6, <5>1, OrderedPrecedes
        <5>5. Precedes(item, left, s.l + 1) BY <3>1, <5>3, <5>4 DEF Precedes, IsHole
        <5> QED BY <3>1, <5>1, <5>3, <5>5
      <4> QED BY <1>1, <2>11, <4>1, <4>2, <4>3
    <3>4. From(<<item>>, left, right)
      <4>1. Len(<<item>>) = 1 /\ <<item>>[1] = item OBVIOUS
      <4> HIDE DEF item
      <4>2. \A j \in 1..1 : j = 1 OBVIOUS
      <4>3. \E i \in 1..Len(right) : item = right[i] BY <2>6, <3>1
      <4> QED BY <4>1, <4>2, <4>3 DEF From
    <3>5. ~IsHole(item) =>
             \A j \in 1..Len(s.out) : ~IsHole(s.out[j]) /\ s.out[j].name < item.name
      BY <2>5, <2>6, <3>1 DEF Precedes
    <3>6. item \in P BY <2>3, <3>1
    <3> HIDE DEF item, l, r
    <3>7. Merged(left, right, [l |-> l, r |-> r, out |-> Insert(s.out, item)])
      BY ZenonT(60), <1>1, <2>8, <2>9, <3>1, <3>2, <3>3, <3>4, <3>5, <3>6, OneMore
    <3> QED BY <2>2, <2>7, <2>8, <3>7 DEF w
  <2> QED BY <2>1, <2>10, <2>11
<1> QED BY <1>2, <1>3

\* Two ordered lists merge to an ordered list of what either has, the right one first.
LEMMA MergeIsRight ==
    ASSUME NEW P, \A p \in P : p.name \in Nat, NEW left \in Seq(P), NEW right \in Seq(P),
           Ordered(left), Ordered(right)
    PROVE  LET out == OverwritingMerge(left, right)
           IN /\ Len(out) <= Len(left) + Len(right)
              /\ Ordered(out)
              /\ From(out, left, right)
              /\ Found(left, Len(left), out) /\ Found(right, Len(right), out)
<1> DEFINE n == Len(left) + Len(right)
           c == Merging(left, right)
           T == {k \in 0..n : /\ Merged(left, right, c[k])
                              /\ \/ c[k].l > Len(left) /\ c[k].r > Len(right)
                                 \/ c[k].l + c[k].r >= k + 2}
<1>1. Len(left) \in Nat /\ Len(right) \in Nat /\ n \in Nat BY LenProperties
<1>2. /\ c[0] = [l |-> 1, r |-> 1, out |-> <<>>]
      /\ \A k \in 1..n : c[k] = MergeTurn(left, right, c[k - 1])
      /\ \A k \in 0..n : c[k] \in MergeStates(P)
  BY MergingTurns
<1> HIDE DEF c
<1>3. 0 \in T
  <2>1. c[0].l = 1 /\ c[0].r = 1 /\ c[0].out = <<>> /\ Len(<<>>) = 0 BY <1>2, EmptySeq
  <2>2. \A i : i \notin 1..0 BY <1>1
  <2>3. Merged(left, right, c[0])
    BY <1>1, <2>1, <2>2 DEF Merged, Ordered, From, Found
  <2> QED BY <1>1, <2>1, <2>3
<1>4. ASSUME NEW k \in 1..n, k - 1 \in T PROVE k \in T
  <2> DEFINE s == c[k - 1]
             w == c[k]
  <2>1. k - 1 \in 0..n /\ k \in 0..n BY <1>1
  <2>2. s \in MergeStates(P) /\ w \in MergeStates(P) /\ w = MergeTurn(left, right, s)
    BY <1>2, <2>1
  <2>3. /\ Merged(left, right, s)
        /\ (s.l > Len(left) /\ s.r > Len(right)) \/ s.l + s.r >= k - 1 + 2
    BY <1>4
  <2> HIDE DEF s, w
  <2>4. /\ Merged(left, right, w)
        /\ (w = s /\ s.l > Len(left) /\ s.r > Len(right)) \/ w.l + w.r >= s.l + s.r + 1
    BY <2>2, <2>3, MergeTurnKeeps
  <2>5. s.l \in Nat /\ s.r \in Nat /\ w.l \in Nat /\ w.r \in Nat BY <2>2 DEF MergeStates
  <2>6. (w.l > Len(left) /\ w.r > Len(right)) \/ w.l + w.r >= k + 2
    <3>1. CASE s.l > Len(left) /\ s.r > Len(right)
      <4>1. MergeTurn(left, right, s) = s BY <3>1 DEF MergeTurn
      <4> QED BY <2>2, <3>1, <4>1
    <3>2. CASE ~(s.l > Len(left) /\ s.r > Len(right)) BY SMTT(60), <2>3, <2>4, <2>5, <3>2
    <3> QED BY <3>1, <3>2
  <2> QED BY <2>1, <2>4, <2>6 DEF w
<1> HIDE DEF T
<1>5. n \in T
  <2>1. 0..n \subseteq T BY <1>1, <1>3, <1>4, UpTo
  <2> QED BY <1>1, <2>1
<1> DEFINE e == c[n]
<1>6. /\ Merged(left, right, e)
      /\ (e.l > Len(left) /\ e.r > Len(right)) \/ e.l + e.r >= n + 2
  BY <1>5 DEF T
<1>7. e \in MergeStates(P) BY <1>1, <1>2
<1>8. OverwritingMerge(left, right) = e.out BY DEF OverwritingMerge, c
<1> HIDE DEF e
<1>9. e.l \in Nat /\ e.r \in Nat BY <1>7 DEF MergeStates
<1>10. e.l <= Len(left) + 1 /\ e.r <= Len(right) + 1 BY <1>6 DEF Merged
<1>11. e.l - 1 = Len(left) /\ e.r - 1 = Len(right)
  <2> DEFINE a == e.l
             b == e.r
             p == Len(left)
             q == Len(right)
  <2>1. a \in Nat /\ b \in Nat /\ p \in Nat /\ q \in Nat BY <1>1, <1>9
  <2>2. a <= p + 1 /\ b <= q + 1 BY <1>10
  <2>3. (a > p /\ b > q) \/ a + b >= p + q + 2 BY <1>6
  <2> HIDE DEF a, b, p, q
  <2>4. a - 1 = p /\ b - 1 = q BY <2>1, <2>2, <2>3
  <2> QED BY <2>4 DEF a, b, p, q
<1> QED BY <1>6, <1>8, <1>11 DEF Merged

-----------------------------------------------------------------------------
(* What a part of the array is when it has been sorted. *)

\* out is what the properties behind a and up to b of the list come to.
Settles(out, list, a, b) ==
    /\ Ordered(out)
    /\ \A j \in 1..Len(out) : ~IsHole(out[j]) =>
          \E i \in a + 1..b : /\ out[j] = list[i]
                              /\ \A k \in i + 1..b : list[k].name # list[i].name
    /\ \A i \in a + 1..b : ~IsHole(list[i]) =>
          \E j \in 1..Len(out) : out[j].name = list[i].name

LEMMA MergeSettles ==
    ASSUME NEW P, \A p \in P : p.name \in Nat, NEW left \in Seq(P), NEW right \in Seq(P),
           NEW list \in Seq(P), NEW a \in Nat, NEW m \in Nat, NEW b \in Nat, a <= m, m <= b,
           b <= Len(list), Settles(left, list, a, m), Settles(right, list, m, b)
    PROVE  Settles(OverwritingMerge(left, right), list, a, b)
<1> DEFINE out == OverwritingMerge(left, right)
<1>1. /\ Ordered(out) /\ From(out, left, right)
      /\ Found(left, Len(left), out) /\ Found(right, Len(right), out)
  BY MergeIsRight DEF Settles
<1>2. out \in Seq(P) BY MergeIsTyped
<1> HIDE DEF out
<1>3. \A i \in a + 1..b : i \in a + 1..m \/ i \in m + 1..b OBVIOUS
<1>4. /\ \A i \in a + 1..m : i \in a + 1..b
      /\ \A i \in m + 1..b : i \in a + 1..b
  OBVIOUS
<1>5. ASSUME NEW j \in 1..Len(out), ~IsHole(out[j])
      PROVE  \E i \in a + 1..b : /\ out[j] = list[i]
                                 /\ \A k \in i + 1..b : list[k].name # list[i].name
  <2>1. CASE \E i \in 1..Len(right) : out[j] = right[i]
    <3>1. PICK h \in 1..Len(right) : out[j] = right[h] BY <2>1
    <3>2. PICK i \in m + 1..b : /\ right[h] = list[i]
                                /\ \A k \in i + 1..b : list[k].name # list[i].name
      BY <1>5, <3>1 DEF Settles
    <3> QED BY <1>4, <3>1, <3>2
  <2>2. CASE /\ \E i \in 1..Len(left) : out[j] = left[i]
             /\ \A i \in 1..Len(right) : right[i].name # out[j].name
    <3>1. PICK h \in 1..Len(left) : out[j] = left[h] BY <2>2
    <3>2. PICK i \in a + 1..m : /\ left[h] = list[i]
                                /\ \A k \in i + 1..m : list[k].name # list[i].name
      BY <1>5, <3>1 DEF Settles
    <3>3. ASSUME NEW k \in i + 1..b PROVE list[k].name # list[i].name
      <4>1. CASE k \in m + 1..b
        <5> SUFFICES ASSUME list[k].name = list[i].name PROVE FALSE OBVIOUS
        <5>1. ~IsHole(list[k]) BY <1>5, <3>1, <3>2 DEF IsHole
        <5>2. PICK q \in 1..Len(right) : right[q].name = list[k].name
          BY <4>1, <5>1 DEF Settles
        <5> QED BY <2>2, <3>1, <3>2, <5>2
      <4>2. CASE k \notin m + 1..b
        <5>1. k \in i + 1..m BY <4>2
        <5> QED BY <3>2, <5>1
      <4> QED BY <4>1, <4>2
    <3> QED BY <1>4, <3>1, <3>2, <3>3
  <2> QED BY <1>1, <1>5, <2>1, <2>2 DEF From
<1>6. ASSUME NEW i \in a + 1..b, ~IsHole(list[i])
      PROVE  \E j \in 1..Len(out) : out[j].name = list[i].name
  <2>1. CASE i \in a + 1..m
    <3>1. PICK h \in 1..Len(left) : left[h].name = list[i].name BY <1>6, <2>1 DEF Settles
    <3>2. ~IsHole(left[h]) BY <1>6, <3>1 DEF IsHole
    <3> QED BY <1>1, <3>1, <3>2 DEF Found
  <2>2. CASE i \in m + 1..b
    <3>1. PICK h \in 1..Len(right) : right[h].name = list[i].name BY <1>6, <2>2 DEF Settles
    <3>2. ~IsHole(right[h]) BY <1>6, <3>1 DEF IsHole
    <3> QED BY <1>1, <3>1, <3>2 DEF Found
  <2> QED BY <1>3, <2>1, <2>2
<1> QED BY <1>1, <1>5, <1>6 DEF Settles, out

LEMMA PaddedSettles ==
    ASSUME NEW P, Hole \in P, NEW out \in Seq(P), NEW list, NEW a \in Nat, NEW b \in Nat,
           NEW size \in Nat, Len(out) <= size, Settles(out, list, a, b)
    PROVE  /\ Settles(Padded(out, size), list, a, b)
           /\ Len(Padded(out, size)) = size
<1> DEFINE w == Padded(out, size)
           n == Len(out)
<1>1. n \in Nat BY LenProperties
<1>2. /\ Len(w) = size /\ \A i \in 1..n : w[i] = out[i]
      /\ \A i \in n + 1..size : w[i] = Hole
  BY <1>1, PaddedIsTyped
<1>3. IsHole(Hole) BY DEF IsHole, Hole
<1> HIDE DEF w
<1>4. \A i \in 1..size : ~IsHole(w[i]) => i \in 1..n
  <2> SUFFICES ASSUME NEW i \in 1..size, ~IsHole(w[i]), i \notin 1..n PROVE FALSE OBVIOUS
  <2>1. i \in n + 1..size BY <1>1
  <2> QED BY <1>2, <1>3, <2>1
<1>5. Ordered(w)
  <2> SUFFICES ASSUME NEW i \in 1..size, NEW j \in 1..size, i < j, ~IsHole(w[j])
               PROVE  ~IsHole(w[i]) /\ w[i].name < w[j].name
    BY <1>2 DEF Ordered
  <2>1. j \in 1..n BY <1>4
  <2>2. i \in 1..n BY <1>1, <2>1
  <2> QED BY <1>2, <2>1, <2>2 DEF Settles, Ordered
<1>6. \A i \in 1..n : i \in 1..size BY <1>1
<1> QED BY SMTT(60), <1>2, <1>4, <1>5, <1>6 DEF Settles, w

-----------------------------------------------------------------------------
(* The passes: the array is in blocks that have been sorted. *)

\* B holds the places where the blocks of one width begin.
Blocks(B, wnd, props, list) ==
    /\ B \subseteq Nat /\ 0 \in B
    /\ \A i \in B : i < Len(list) =>
          /\ i + wnd \in B
          /\ Settles(Part(props, i, UpToLen(list, i + wnd)), list, i, UpToLen(list, i + wnd))

LEMMA UpToLenIsTyped ==
    ASSUME NEW s, Len(s) \in Nat, NEW n \in Nat
    PROVE  /\ UpToLen(s, n) \in 0..Len(s) /\ UpToLen(s, n) <= n
           /\ n <= Len(s) => UpToLen(s, n) = n
           /\ n >= Len(s) => UpToLen(s, n) = Len(s)
BY DEF UpToLen

\* Nothing comes to nothing.
LEMMA NothingSettles ==
    ASSUME NEW out, Len(out) = 0, NEW list, NEW a \in Nat, NEW b \in Nat, b <= a
    PROVE  Settles(out, list, a, b)
<1>1. \A i : i \notin 1..Len(out) /\ i \notin a + 1..b OBVIOUS
<1> QED BY <1>1 DEF Settles, Ordered

\* Two neighbouring blocks of a width merge to one of twice the width.
LEMMA WindowSettles ==
    ASSUME NEW P, Hole \in P, \A p \in P : p.name \in Nat, NEW props \in Seq(P),
           NEW list \in Seq(P), Len(props) = Len(list), NEW wnd \in Nat, NEW B,
           Blocks(B, wnd, props, list), NEW i \in B, i < Len(list)
    PROVE  /\ Settles(Window(wnd, props, i), list, i, UpToLen(list, i + 2 * wnd))
           /\ Len(Window(wnd, props, i)) = UpToLen(list, i + 2 * wnd) - i
<1> DEFINE n == Len(list)
           r == UpToLen(list, i + wnd)
           e == UpToLen(list, i + 2 * wnd)
           left == Part(props, i, r)
           right == Part(props, r, e)
           m == OverwritingMerge(left, right)
<1>1. n \in Nat /\ i \in Nat BY LenProperties DEF Blocks
<1>2. i <= r /\ r <= e /\ e <= n /\ r \in Nat /\ e \in Nat BY <1>1 DEF UpToLen
<1>3. left \in Seq(P) /\ right \in Seq(P) /\ Len(left) = r - i /\ Len(right) = e - r
  <2> HIDE DEF r, e
  <2>1. i <= Len(props) /\ r <= Len(props) /\ e <= Len(props) BY <1>1, <1>2
  <2>2. left \in Seq(P) /\ Len(left) = IF i < r THEN r - i ELSE 0
    BY <1>1, <1>2, <2>1, PartIsTyped
  <2>3. right \in Seq(P) /\ Len(right) = IF r < e THEN e - r ELSE 0
    BY <1>1, <1>2, <2>1, PartIsTyped
  <2> HIDE DEF left, right
  <2> QED BY <1>1, <1>2, <2>2, <2>3
<1>4. Settles(left, list, i, r) BY <1>1 DEF Blocks
<1>5. Settles(right, list, r, e)
  <2>1. CASE i + wnd < n
    <3>1. r = i + wnd /\ r \in B /\ UpToLen(list, r + wnd) = e
      BY <1>1, <2>1 DEF Blocks, UpToLen
    <3> QED BY <1>1, <2>1, <3>1 DEF Blocks
  <2>2. CASE ~(i + wnd < n)
    <3>1. r = n /\ e = n BY <1>1, <2>2 DEF UpToLen
    <3> HIDE DEF right, r, e
    <3>2. Len(right) = 0 BY <1>1, <1>3, <3>1
    <3> QED BY <1>1, <3>1, <3>2, NothingSettles
  <2> QED BY <2>1, <2>2
<1>6. UpToLen(props, i + wnd) = r /\ UpToLen(props, i + 2 * wnd) = e BY DEF UpToLen
<1>7. Window(wnd, props, i) = Padded(m, e - i) BY <1>1, <1>6, WindowIsTyped
<1> HIDE DEF r, e, left, right
<1>8. m \in Seq(P) BY <1>3, MergeIsTyped
<1>9. Settles(m, list, i, e) BY <1>1, <1>2, <1>3, <1>4, <1>5, MergeSettles
<1>10. Len(m) <= Len(left) + Len(right) BY <1>3, <1>4, <1>5, MergeIsRight DEF Settles
<1> HIDE DEF m
<1>11. Len(m) <= e - i /\ e - i \in Nat BY <1>1, <1>2, <1>3, <1>10
<1> DEFINE size == e - i
<1>12. Len(m) <= size /\ size \in Nat BY <1>11
<1> HIDE DEF size
<1>13. Settles(Padded(m, size), list, i, e) /\ Len(Padded(m, size)) = size
  BY <1>1, <1>2, <1>8, <1>9, <1>12, PaddedSettles
<1> QED BY <1>7, <1>13 DEF e, size

\* Behind what a pass has put out comes the next window, sorted.
Appended(wnd, props, list, s, w) ==
    LET next == Window(wnd, props, s.i)
        e == UpToLen(list, w.i)
    IN /\ w.i = s.i + 2 * wnd /\ Len(s.out) = s.i /\ s.i < e
       /\ Settles(next, list, s.i, e)
       /\ Len(next) = e - s.i
       /\ \A q \in 1..e - s.i : w.out[s.i + q] = next[q]

\* What w has put out begins with what s has put out.
Extends(s, w) == \A q \in 1..Len(s.out) : q \in 1..Len(w.out) /\ w.out[q] = s.out[q]

\* Where a pass over an array in blocks stands before and after each window.
Standing(B, list, s) ==
    /\ s.i < Len(list) => s.i \in B
    /\ Len(s.out) = UpToLen(list, s.i)

LEMMA NextWindowAppends ==
    ASSUME NEW P, Hole \in P, \A p \in P : p.name \in Nat, NEW props \in Seq(P),
           NEW list \in Seq(P), Len(props) = Len(list), NEW wnd \in Nat \ {0}, NEW B,
           Blocks(B, wnd, props, list), NEW s \in WindowStates(P), Standing(B, list, s)
    PROVE  /\ Standing(B, list, NextWindow(wnd, props, s))
           /\ Extends(s, NextWindow(wnd, props, s))
           /\ s.i >= Len(list) => NextWindow(wnd, props, s) = s
           /\ s.i < Len(list) => Appended(wnd, props, list, s, NextWindow(wnd, props, s))
<1> DEFINE n == Len(list)
           w == NextWindow(wnd, props, s)
           W == Window(wnd, props, s.i)
           e == UpToLen(list, s.i + 2 * wnd)
<1>1. n \in Nat /\ s.i \in Nat /\ s.out \in Seq(P) /\ Len(s.out) \in Nat /\ wnd \in Nat
  BY LenProperties DEF WindowStates
<1>2. CASE ~(s.i < n)
  <2>1. w = s BY <1>2 DEF NextWindow
  <2> HIDE DEF w
  <2>2. Extends(s, w) BY <2>1 DEF Extends
  <2> QED BY <1>2, <2>1, <2>2 DEF w
<1>3. CASE s.i < n
  <2>1. w = [i |-> s.i + 2 * wnd, out |-> s.out \o W] BY <1>3 DEF NextWindow
  <2>2. w.i = s.i + 2 * wnd /\ w.out = s.out \o W
    <3> HIDE DEF w, W
    <3> QED BY <2>1
  <2>3. s.i \in B BY <1>3 DEF Standing
  <2>4. W \in Seq(P) BY <1>1, WindowIsTyped
  <2> HIDE DEF w
  <2>5. Settles(W, list, s.i, e) /\ Len(W) = e - s.i BY <1>1, <1>3, <2>3, WindowSettles
  <2>6. Len(s.out) = s.i BY <1>1, <1>3 DEF Standing, UpToLen
  <2>7. e \in Nat /\ s.i < e /\ e <= n BY <1>1, <1>3 DEF UpToLen
  <2>8. s.i + 2 * wnd < n => s.i + 2 * wnd \in B
    <3> SUFFICES ASSUME s.i + 2 * wnd < n PROVE s.i + 2 * wnd \in B OBVIOUS
    <3>1. s.i + wnd \in B BY <1>3, <2>3 DEF Blocks
    <3>2. s.i + wnd < n BY <1>1
    <3>3. s.i + wnd + wnd \in B BY <3>1, <3>2 DEF Blocks
    <3>4. s.i + wnd + wnd = s.i + 2 * wnd BY <1>1
    <3> QED BY <3>3, <3>4
  <2>9. e = UpToLen(list, w.i) BY <2>2
  <2> HIDE DEF W, e
  <2>10. /\ Len(w.out) = s.i + Len(W)
         /\ \A q \in 1..s.i + Len(W) : w.out[q] = IF q <= s.i THEN s.out[q] ELSE W[q - s.i]
    BY SMTT(60), <1>1, <2>2, <2>4, <2>6, ConcatProperties
  <2>11. Standing(B, list, w) BY <1>1, <2>2, <2>5, <2>7, <2>8, <2>9, <2>10 DEF Standing
  <2>12. Extends(s, w)
    <3> SUFFICES ASSUME NEW q \in 1..s.i PROVE q \in 1..Len(w.out) /\ w.out[q] = s.out[q]
      BY <2>6 DEF Extends
    <3>1. q \in 1..s.i + Len(W) /\ q <= s.i BY <1>1, <2>5, <2>7
    <3> QED BY <2>10, <3>1
  <2>13. \A q \in 1..e - s.i : w.out[s.i + q] = W[q]
    <3> SUFFICES ASSUME NEW q \in 1..e - s.i PROVE w.out[s.i + q] = W[q] OBVIOUS
    <3> DEFINE h == s.i + q
    <3>1. h \in 1..s.i + Len(W) /\ ~(h <= s.i) /\ h - s.i = q
      BY SMTT(60), <1>1, <2>5, <2>7
    <3> HIDE DEF h
    <3>2. w.out[h] = IF h <= s.i THEN s.out[h] ELSE W[h - s.i] BY <2>10, <3>1
    <3>3. w.out[h] = W[q] BY <3>1, <3>2
    <3> QED BY <3>3 DEF h
  <2>14. Appended(wnd, props, list, s, w)
    BY <2>2, <2>5, <2>6, <2>7, <2>9, <2>13 DEF Appended, W
  <2> QED BY <1>1, <1>3, <2>11, <2>12, <2>14 DEF w
<1> QED BY <1>2, <1>3

LEMMA PassSettles ==
    ASSUME NEW P, Hole \in P, \A p \in P : p.name \in Nat, NEW props \in Seq(P),
           NEW list \in Seq(P), Len(props) = Len(list), NEW wnd \in Nat \ {0}, NEW B,
           Blocks(B, wnd, props, list)
    PROVE  /\ Len(Pass(wnd, props)) = Len(list)
           /\ \E D : Blocks(D, 2 * wnd, Pass(wnd, props), list)
<1> DEFINE n == Len(list)
           c == Windows(wnd, props)
           out == Pass(wnd, props)
           D == {c[k].i : k \in 0..n}
           Far(s, k) == s.i >= k \/ s.i >= n
<1>1. n \in Nat BY LenProperties
<1>2. /\ c[0] = [i |-> 0, out |-> <<>>]
      /\ \A k \in 1..n : c[k] = NextWindow(wnd, props, c[k - 1])
      /\ \A k \in 0..n : c[k] \in WindowStates(P)
  BY WindowsTurns
<1>3. out = c[n].out BY DEF Pass
<1>4. out \in Seq(P) BY PassIsTyped
<1> HIDE DEF c, n, out
<1> DEFINE T == {k \in 0..n : /\ Standing(B, list, c[k]) /\ Far(c[k], k)
                              /\ \A m \in 0..k : Extends(c[m], c[k])}
<1>5. 0 \in T
  <2>1. c[0].i = 0 /\ c[0].out = <<>> /\ Len(<<>>) = 0 BY <1>2, EmptySeq
  <2>2. UpToLen(list, 0) = 0 BY <1>1 DEF UpToLen, n
  <2>3. 0 \in B BY DEF Blocks
  <2>4. \A m \in 0..0 : m = 0 OBVIOUS
  <2>5. Extends(c[0], c[0]) BY DEF Extends
  <2>6. Standing(B, list, c[0]) /\ Far(c[0], 0) BY <2>1, <2>2, <2>3 DEF Standing
  <2> QED BY <1>1, <2>4, <2>5, <2>6
<1>6. ASSUME NEW k \in 1..n, k - 1 \in T PROVE k \in T
  <2> DEFINE s == c[k - 1]
             w == c[k]
  <2>1. k - 1 \in 0..n /\ k \in 0..n /\ k - 1 \in 0..k - 1 BY <1>1
  <2>2. s \in WindowStates(P) /\ w = NextWindow(wnd, props, s) BY <1>2, <2>1
  <2>3. Standing(B, list, s) /\ Far(s, k - 1) /\ \A m \in 0..k - 1 : Extends(c[m], s)
    BY <1>6
  <2> HIDE DEF s, w
  <2>4. /\ Standing(B, list, w) /\ Extends(s, w)
        /\ s.i >= n => w = s
        /\ s.i < n => Appended(wnd, props, list, s, w)
    BY <2>2, <2>3, NextWindowAppends DEF n
  <2>5. s.i \in Nat BY <2>2 DEF WindowStates
  <2>6. s.i < n => w.i = s.i + 2 * wnd BY <2>4 DEF Appended
  <2>7. Far(w, k) BY <1>1, <2>3, <2>4, <2>5, <2>6
  <2>8. \A m \in 0..k : Extends(c[m], w)
    <3> SUFFICES ASSUME NEW m \in 0..k PROVE Extends(c[m], w) OBVIOUS
    <3>1. CASE m = k BY <3>1 DEF w, Extends
    <3>2. CASE m # k
      <4>1. m \in 0..k - 1 BY <3>2
      <4>2. Extends(c[m], s) BY <2>3, <4>1
      <4> QED BY <2>4, <4>2 DEF Extends
    <3> QED BY <3>1, <3>2
  <2> QED BY <2>1, <2>4, <2>7, <2>8 DEF w
<1> HIDE DEF T
<1>7. 0..n \subseteq T BY <1>1, <1>5, <1>6, UpTo
<1>8. \A k \in 0..n : Standing(B, list, c[k]) /\ Far(c[k], k) /\ Extends(c[k], c[n])
  <2>1. n \in T BY <1>1, <1>7
  <2> QED BY <1>7, <2>1 DEF T
<1>9. n \in 0..n BY <1>1
<1>10. c[n].i \in Nat /\ c[n].i >= n BY <1>1, <1>2, <1>8, <1>9 DEF WindowStates
<1>11. Len(out) = n
  <2>1. UpToLen(list, c[n].i) = n BY <1>1, <1>10, UpToLenIsTyped DEF n
  <2> QED BY <1>3, <1>8, <1>9, <2>1 DEF Standing
<1>12. ASSUME NEW k \in 0..n, c[k].i < n
       PROVE  LET i == c[k].i
                  e == UpToLen(list, i + 2 * wnd)
              IN i + 2 * wnd \in D /\ Settles(Part(out, i, e), list, i, e)
  <2> DEFINE s == c[k]
             w == c[k + 1]
             i == s.i
             e == UpToLen(list, i + 2 * wnd)
             W == Window(wnd, props, i)
  <2>1. k # n BY <1>10, <1>12
  <2>2. k + 1 \in 1..n /\ k + 1 \in 0..n /\ k + 1 - 1 = k BY <1>1, <2>1
  <2>3. s \in WindowStates(P) /\ w = NextWindow(wnd, props, s)
    <3>1. c[k + 1] = NextWindow(wnd, props, c[k + 1 - 1]) BY <1>2, <2>2
    <3> QED BY <1>2, <2>2, <3>1
  <2>4. Standing(B, list, s) /\ Extends(w, c[n]) /\ s.i < n BY <1>8, <1>12, <2>2
  <2>5. w.i \in D BY <2>2
  <2> HIDE DEF s, w, D, Far
  <2>6. Standing(B, list, w) /\ Appended(wnd, props, list, s, w)
    BY <2>3, <2>4, NextWindowAppends DEF n
  <2>7. w.i = i + 2 * wnd /\ e = UpToLen(list, w.i) /\ Len(w.out) = e
    BY <2>6 DEF Appended, Standing
  <2>8. i < e /\ Settles(W, list, i, e) /\ Len(W) = e - i
        /\ \A q \in 1..e - i : w.out[i + q] = W[q]
    BY <2>6, <2>7 DEF Appended
  <2>9. i \in Nat /\ e \in 0..n
    <3>1. i \in Nat /\ i + 2 * wnd \in Nat BY <2>3 DEF WindowStates
    <3> QED BY <1>1, <3>1, UpToLenIsTyped DEF n
  <2>10. W \in Seq(P) BY <2>9, WindowIsTyped
  <2> HIDE DEF i, W, e
  <2> DEFINE part == Part(out, i, e)
  <2>11. /\ part \in Seq(P) /\ Len(part) = e - i
         /\ \A q \in 1..e - i : part[q] = out[i + q]
    <3>1. e \in Nat /\ e <= Len(out) BY <1>1, <1>11, <2>9
    <3>2. part \in Seq(P) /\ Len(part) = IF i < e THEN e - i ELSE 0
      BY <1>4, <2>9, <3>1, PartIsTyped
    <3>3. \A q \in 1..e - i : part[q] = out[i + q] BY <1>4, <2>9, <3>1, PartIsTyped
    <3> HIDE DEF part
    <3> QED BY <2>8, <3>2, <3>3
  <2> HIDE DEF part
  <2>12. \A q \in 1..e - i : part[q] = W[q]
    <3> SUFFICES ASSUME NEW q \in 1..e - i PROVE part[q] = W[q] OBVIOUS
    <3>1. i + q \in 1..Len(w.out) BY <1>1, <2>7, <2>8, <2>9
    <3>2. out[i + q] = w.out[i + q] BY <1>3, <2>4, <3>1 DEF Extends
    <3> QED BY <2>8, <2>11, <3>2
  <2>13. part = W
    <3>1. \A q \in 1..Len(part) : part[q] = W[q] BY <2>11, <2>12
    <3> QED BY <2>8, <2>10, <2>11, <3>1, SeqEqual
  <2>14. i + 2 * wnd \in D /\ Settles(part, list, i, e) BY <2>5, <2>7, <2>8, <2>13
  <2> QED BY <2>14 DEF part, e, i, s
<1>13. 0 \in D
  <2>1. 0 \in 0..n /\ c[0].i = 0 BY <1>1, <1>2
  <2> QED BY <2>1
<1>14. D \subseteq Nat BY <1>2 DEF WindowStates
<1>15. \A i \in D : i < n =>
          /\ i + 2 * wnd \in D
          /\ Settles(Part(out, i, UpToLen(list, i + 2 * wnd)), list,
                     i, UpToLen(list, i + 2 * wnd))
  BY <1>12
<1> HIDE DEF D
<1>16. Blocks(D, 2 * wnd, out, list) BY <1>13, <1>14, <1>15 DEF Blocks, n
<1> QED BY <1>11, <1>16 DEF out, n

LEMMA PassesSettle ==
    ASSUME NEW P, Hole \in P, \A p \in P : p.name \in Nat, NEW list \in Seq(P)
    PROVE  LET s == Passes(list)[Len(list)]
           IN /\ s.wnd >= Len(list) /\ Len(s.props) = Len(list)
              /\ \E B : Blocks(B, s.wnd, s.props, list)
<1> DEFINE n == Len(list)
           c == Passes(list)
           Wide(s, k) == s.wnd >= k + 1 \/ s.wnd >= n
           Parted(s) == \E B : Blocks(B, s.wnd, s.props, list)
           T == {k \in 0..n : /\ Wide(c[k], k) /\ c[k].wnd # 0 /\ Len(c[k].props) = n
                              /\ Parted(c[k])}
<1>1. n \in Nat BY LenProperties
<1>2. /\ c[0] = [wnd |-> 1, props |-> list]
      /\ \A k \in 1..n : c[k] = NextPass(list, c[k - 1])
      /\ \A k \in 0..n : c[k] \in PassStates(P)
  BY PassesTurns
<1> HIDE DEF c
<1>3. Blocks(Nat, 1, list, list)
  <2> SUFFICES ASSUME NEW i \in Nat, i < n
               PROVE  Settles(Part(list, i, UpToLen(list, i + 1)), list,
                              i, UpToLen(list, i + 1))
    BY DEF Blocks
  <2> DEFINE next == i + 1
             one == Part(list, i, next)
  <2>1. UpToLen(list, i + 1) = i + 1 BY <1>1 DEF UpToLen
  <2>2. next \in Nat /\ next <= Len(list) /\ i < next /\ next - i = 1 BY <1>1
  <2> HIDE DEF next
  <2>3. /\ Len(one) = IF i < next THEN next - i ELSE 0
        /\ \A q \in 1..next - i : one[q] = list[i + q]
    BY <2>2, PartIsTyped
  <2> HIDE DEF one
  <2>4. Len(one) = 1 /\ one[1] = list[i + 1] BY <2>2, <2>3
  <2>5. \A k : /\ k \in i + 1..i + 1 <=> k = i + 1
               /\ k \in 1..1 <=> k = 1
               /\ k \notin i + 1 + 1..i + 1
    OBVIOUS
  <2>6. Ordered(one) BY <2>4 DEF Ordered
  <2>7. Settles(one, list, i, i + 1) BY <2>4, <2>5, <2>6 DEF Settles
  <2> QED BY <2>1, <2>7 DEF one, next
<1>4. 0 \in T
  <2>1. c[0].wnd = 1 /\ c[0].props = list BY <1>2
  <2>2. Parted(c[0]) BY <1>3, <2>1
  <2> HIDE DEF Parted
  <2> QED BY <1>1, <2>1, <2>2
<1>5. ASSUME NEW k \in 1..n, k - 1 \in T PROVE k \in T
  <2> DEFINE s == c[k - 1]
             w == c[k]
  <2>1. k - 1 \in 0..n /\ k \in 0..n BY <1>1
  <2>2. s \in PassStates(P) /\ w = NextPass(list, s) BY <1>2, <2>1
  <2>3. Wide(s, k - 1) /\ s.wnd # 0 /\ Len(s.props) = n /\ Parted(s) BY <1>5
  <2> HIDE DEF s, w
  <2>4. s.wnd \in Nat \ {0} /\ s.props \in Seq(P) BY <2>2, <2>3 DEF PassStates
  <2>5. CASE ~(s.wnd < n)
    <3>1. w = s BY <2>2, <2>5 DEF NextPass
    <3>2. Wide(w, k) BY <1>1, <2>4, <2>5, <3>1
    <3> QED BY <2>1, <2>3, <3>1, <3>2 DEF w
  <2>6. CASE s.wnd < n
    <3>1. w = [wnd |-> 2 * s.wnd, props |-> Pass(s.wnd, s.props)] BY <2>2, <2>6 DEF NextPass
    <3>2. w.wnd = 2 * s.wnd /\ w.props = Pass(s.wnd, s.props) BY <3>1
    <3>3. PICK B : Blocks(B, s.wnd, s.props, list) BY <2>3
    <3>4. /\ Len(Pass(s.wnd, s.props)) = Len(list)
          /\ \E D : Blocks(D, 2 * s.wnd, Pass(s.wnd, s.props), list)
      BY <2>3, <2>4, <3>3, PassSettles
    <3>5. Parted(w) BY <3>2, <3>4
    <3>6. Len(w.props) = n BY <3>2, <3>4
    <3> HIDE DEF Parted
    <3>7. Wide(w, k) /\ w.wnd # 0 BY <1>1, <2>3, <2>4, <2>6, <3>2
    <3> QED BY <2>1, <3>5, <3>6, <3>7 DEF w
  <2> QED BY <2>5, <2>6
<1> HIDE DEF T
<1>6. n \in T
  <2>1. 0..n \subseteq T BY <1>1, <1>4, <1>5, UpTo
  <2> QED BY <1>1, <2>1
<1>7. c[n] \in PassStates(P) BY <1>1, <1>2
<1>8. Wide(c[n], n) /\ Len(c[n].props) = n /\ Parted(c[n]) BY <1>6 DEF T
<1>9. c[n].wnd >= n BY <1>1, <1>7, <1>8 DEF PassStates
<1> QED BY <1>8, <1>9 DEF c

\* The whole array is sorted in the end.
LEMMA SortedSettles ==
    ASSUME NEW P, Hole \in P, \A p \in P : p.name \in Nat, NEW list \in Seq(P)
    PROVE  /\ Settles(Sorted(list), list, 0, Len(list))
           /\ Len(Sorted(list)) = Len(list)
<1> DEFINE n == Len(list)
           s == Passes(list)[n]
           out == Sorted(list)
<1>1. n \in Nat BY LenProperties
<1>2. s.wnd >= n /\ Len(s.props) = n BY PassesSettle
<1>3. PICK B : Blocks(B, s.wnd, s.props, list) BY PassesSettle
<1>4. out = s.props BY DEF Sorted
<1>5. out \in Seq(P) BY SortedIsTyped
<1>6. s.wnd \in Nat
  <2>1. n \in 0..n BY <1>1
  <2>2. s \in PassStates(P) BY <2>1, PassesTurns
  <2> QED BY <2>2 DEF PassStates
<1> HIDE DEF s, out
<1>7. CASE n = 0 BY <1>1, <1>2, <1>4, <1>7, NothingSettles DEF out
<1>8. CASE n > 0
  <2>1. 0 \in B /\ 0 < Len(list) BY <1>3, <1>8 DEF Blocks
  <2>2. 0 + s.wnd = s.wnd /\ s.wnd >= Len(list) BY <1>2, <1>6
  <2>3. UpToLen(list, 0 + s.wnd) = n BY <1>1, <1>6, <2>2, UpToLenIsTyped
  <2> HIDE DEF n
  <2>4. Settles(Part(out, 0, n), list, 0, n) BY <1>3, <1>4, <2>1, <2>3 DEF Blocks
  <2> DEFINE none == 0
             part == Part(out, none, n)
  <2>5. none \in Nat /\ none < n /\ n - none = n /\ \A q \in 1..n : none + q = q
    BY <1>1, <1>8
  <2> HIDE DEF none
  <2>6. /\ part \in Seq(P) /\ Len(part) = IF none < n THEN n - none ELSE 0
        /\ \A q \in 1..n - none : part[q] = out[none + q]
    <3>1. n <= Len(out) BY <1>1, <1>2, <1>4
    <3> QED BY <1>1, <1>5, <2>5, <3>1, PartIsTyped
  <2> HIDE DEF part
  <2>7. Len(part) = n BY <2>5, <2>6
  <2>8. \A q \in 1..Len(part) : part[q] = out[q] BY <2>5, <2>6, <2>7
  <2>9. part = out BY <1>2, <1>4, <1>5, <2>6, <2>7, <2>8, SeqEqual
  <2> QED BY <1>2, <1>4, <2>4, <2>9 DEF part, none, n, out
<1> QED BY <1>1, <1>7, <1>8

-----------------------------------------------------------------------------
(* What is written. *)

LEMMA KeptIsAll ==
    ASSUME NEW P, \A p \in P : p.name \in Nat, NEW sorted \in Seq(P), Ordered(sorted)
    PROVE  LET out == Kept(sorted)[Len(sorted)]
           IN /\ \A i, j \in 1..Len(out) : i < j => out[i].name < out[j].name
              /\ \A i \in 1..Len(out) : \E h \in 1..Len(sorted) :
                     out[i] = sorted[h] /\ ~IsHole(sorted[h])
              /\ \A h \in 1..Len(sorted) : ~IsHole(sorted[h]) =>
                     \E i \in 1..Len(out) : out[i] = sorted[h]
<1> DEFINE n == Len(sorted)
           c == Kept(sorted)
           InOrder(o) == \A i, j \in 1..Len(o) : i < j => o[i].name < o[j].name
           Taken(o, k) == \A i \in 1..Len(o) : \E h \in 1..k :
                              o[i] = sorted[h] /\ ~IsHole(sorted[h])
           All(o, k) == \A h \in 1..k : ~IsHole(sorted[h]) =>
                            \E i \in 1..Len(o) : o[i] = sorted[h]
           T == {k \in 0..n : InOrder(c[k]) /\ Taken(c[k], k) /\ All(c[k], k)}
<1>1. n \in Nat BY LenProperties
<1>2. /\ c[0] = <<>>
      /\ \A k \in 1..n : c[k] = Keep(sorted, k, c[k - 1])
      /\ \A k \in 0..n : c[k] \in Seq(Named(P))
  BY KeptTurns
<1> HIDE DEF c
<1>3. 0 \in T
  <2>1. Len(c[0]) = 0 BY <1>2, EmptySeq
  <2>2. \A i : i \notin 1..0 BY <1>1
  <2> QED BY <1>1, <2>1, <2>2
<1>4. ASSUME NEW k \in 1..n, k - 1 \in T PROVE k \in T
  <2> DEFINE o == c[k - 1]
             w == c[k]
             m == Len(o)
  <2>1. k - 1 \in 0..n /\ k \in 0..n BY <1>1
  <2>2. o \in Seq(Named(P)) /\ w = Keep(sorted, k, o) BY <1>2, <2>1
  <2>3. InOrder(o) /\ Taken(o, k - 1) /\ All(o, k - 1) BY <1>4
  <2>4. m \in Nat BY <2>2, LenProperties
  <2>5. \A h \in 1..k : h \in 1..k - 1 \/ h = k BY <1>1
  <2>6. k \in 1..k /\ \A h \in 1..k - 1 : h \in 1..k BY <1>1
  <2> HIDE DEF o, w
  <2>7. CASE IsHole(sorted[k])
    <3>1. w = o BY <2>2, <2>7 DEF Keep, IsHole
    <3>2. Taken(w, k) BY <2>3, <2>6, <3>1
    <3>3. All(w, k) BY <2>3, <2>5, <2>7, <3>1
    <3> QED BY <2>1, <2>3, <3>1, <3>2, <3>3 DEF w
  <2>8. CASE ~IsHole(sorted[k])
    <3>1. w = Append(o, sorted[k]) BY <2>2, <2>8 DEF Keep, IsHole
    <3>2. sorted[k] \in Named(P)
      <4>1. sorted[k] \in P BY ElementOfSeq
      <4> QED BY <2>8, <4>1 DEF Named, IsHole
    <3>3. /\ Len(w) = m + 1 /\ w[m + 1] = sorted[k]
          /\ \A i \in 1..m : w[i] = o[i]
      BY <2>2, <3>1, <3>2, AppendProperties
    <3>4. \A i \in 1..m + 1 : i \in 1..m \/ i = m + 1 BY <2>4
    <3>5. m + 1 \in 1..m + 1 /\ \A i \in 1..m : i \in 1..m + 1 BY <2>4
    <3> HIDE DEF m
    <3>6. \A i \in 1..m : o[i].name < sorted[k].name
      <4> SUFFICES ASSUME NEW i \in 1..m PROVE o[i].name < sorted[k].name OBVIOUS
      <4>1. PICK h \in 1..k - 1 : o[i] = sorted[h] BY <2>3 DEF m
      <4>2. h \in 1..n /\ k \in 1..n /\ h < k BY <1>1
      <4> QED BY <2>8, <4>1, <4>2 DEF Ordered
    <3>7. InOrder(w)
      <4> SUFFICES ASSUME NEW i \in 1..m + 1, NEW j \in 1..m + 1, i < j
                   PROVE  w[i].name < w[j].name
        BY <3>3
      <4>1. i \in 1..m BY <2>4
      <4>2. CASE j \in 1..m BY <2>3, <3>3, <4>1, <4>2 DEF m
      <4>3. CASE j = m + 1 BY <3>3, <3>6, <4>1, <4>3
      <4> QED BY <3>4, <4>2, <4>3
    <3>8. Taken(w, k)
      <4> SUFFICES ASSUME NEW i \in 1..m + 1
                   PROVE  \E h \in 1..k : w[i] = sorted[h] /\ ~IsHole(sorted[h])
        BY <3>3
      <4>1. CASE i \in 1..m
        <5>1. PICK h \in 1..k - 1 : o[i] = sorted[h] /\ ~IsHole(sorted[h])
          BY <2>3, <4>1 DEF m
        <5> QED BY <2>6, <3>3, <4>1, <5>1
      <4>2. CASE i = m + 1 BY <2>6, <2>8, <3>3, <4>2
      <4> QED BY <3>4, <4>1, <4>2
    <3>9. All(w, k)
      <4> SUFFICES ASSUME NEW h \in 1..k, ~IsHole(sorted[h])
                   PROVE  \E i \in 1..m + 1 : w[i] = sorted[h]
        BY <3>3
      <4>1. CASE h = k BY <3>3, <3>5, <4>1
      <4>2. CASE h \in 1..k - 1
        <5>1. PICK i \in 1..m : o[i] = sorted[h] BY <2>3, <4>2 DEF m
        <5> QED BY <3>3, <3>5, <5>1
      <4> QED BY <2>5, <4>1, <4>2
    <3> QED BY <2>1, <3>7, <3>8, <3>9 DEF w
  <2> QED BY <2>7, <2>8
<1> HIDE DEF T
<1>5. n \in T
  <2>1. 0..n \subseteq T BY <1>1, <1>3, <1>4, UpTo
  <2> QED BY <1>1, <2>1
<1> QED BY <1>5 DEF T, c

\* ckdl-cat.c:217, for properties of any kind, any number of them, in any order: each
\* name is written once, in order, with the value that was given last.
THEOREM WrittenInOrder ==
    ASSUME NEW P, \A p \in P : p.name \in Nat \ {0}, NEW props \in Seq(P)
    PROVE  InOrderWithoutDuplicates(Emission(props), props)
<1> DEFINE cells == P \cup {Hole}
           sorted == Sorted(props)
           out == Emission(props)
           n == Len(props)
<1>1. props \in Seq(cells)
  <2>1. P \subseteq cells OBVIOUS
  <2> QED BY <2>1, SeqMonotonic
<1>2. Hole \in cells /\ \A p \in cells : p.name \in Nat BY DEF Hole, NoName
<1> HIDE DEF cells
<1>3. sorted \in Seq(cells) BY <1>1, <1>2, SortedIsTyped
<1>4. Settles(sorted, props, 0, n) BY <1>1, <1>2, SortedSettles
<1>5. n \in Nat /\ 0 + 1 = 1 BY LenProperties
<1>6. \A k \in 1..n : ~IsHole(props[k])
  <2> SUFFICES ASSUME NEW k \in 1..n PROVE ~IsHole(props[k]) OBVIOUS
  <2>1. props[k] \in P BY ElementOfSeq
  <2> QED BY <2>1 DEF IsHole, NoName
<1>7. out = Kept(sorted)[Len(sorted)] BY DEF Emission
<1> HIDE DEF sorted, out
<1>8. /\ \A i, j \in 1..Len(out) : i < j => out[i].name < out[j].name
      /\ \A i \in 1..Len(out) : \E h \in 1..Len(sorted) :
             out[i] = sorted[h] /\ ~IsHole(sorted[h])
      /\ \A h \in 1..Len(sorted) : ~IsHole(sorted[h]) =>
             \E i \in 1..Len(out) : out[i] = sorted[h]
  <2>1. Ordered(sorted) BY <1>4 DEF Settles
  <2> QED BY <1>2, <1>3, <1>7, <2>1, KeptIsAll
<1>9. ASSUME NEW i \in 1..Len(out)
      PROVE  \E k \in 1..n : /\ out[i] = props[k]
                             /\ \A later \in k + 1..n : props[later].name # props[k].name
  <2>1. PICK h \in 1..Len(sorted) : out[i] = sorted[h] /\ ~IsHole(sorted[h]) BY <1>8
  <2>2. PICK k \in 0 + 1..n : /\ sorted[h] = props[k]
                              /\ \A q \in k + 1..n : props[q].name # props[k].name
    BY <1>4, <2>1 DEF Settles
  <2> QED BY <1>5, <2>1, <2>2
<1>10. ASSUME NEW k \in 1..n PROVE \E i \in 1..Len(out) : out[i].name = props[k].name
  <2>1. k \in 0 + 1..n BY <1>5
  <2>2. PICK h \in 1..Len(sorted) : sorted[h].name = props[k].name
    BY <1>4, <1>6, <2>1 DEF Settles
  <2>3. ~IsHole(sorted[h]) BY <1>6, <2>2 DEF IsHole
  <2> QED BY <1>8, <2>2, <2>3
<1> QED BY <1>8, <1>9, <1>10 DEF InOrderWithoutDuplicates, out

\* proplist_clear counts on it: every hole of the sorted array is behind every property,
\* so the first that are left are the ones to be freed.
THEOREM HolesAreBehind ==
    ASSUME NEW P, \A p \in P : p.name \in Nat \ {0}, NEW props \in Seq(P)
    PROVE  HolesComeLast(Sorted(props))
<1> DEFINE cells == P \cup {Hole}
           sorted == Sorted(props)
<1>1. props \in Seq(cells)
  <2>1. P \subseteq cells OBVIOUS
  <2> QED BY <2>1, SeqMonotonic
<1>2. Hole \in cells /\ \A p \in cells : p.name \in Nat BY DEF Hole, NoName
<1> HIDE DEF cells
<1>3. Ordered(sorted) BY <1>1, <1>2, SortedSettles DEF Settles
<1> QED BY <1>3 DEF Ordered, HolesComeLast, IsHole
=============================================================================
