---------------------------- MODULE KdlProplist ----------------------------
(***************************************************************************)
(* proplist_emit and overwriting_merge of src/utils/ckdl-cat.c: a merge    *)
(* sort, bottom up, that drops a property when a later one has the same    *)
(* name.  What is dropped leaves a hole; the array keeps its size, and its *)
(* holes carry no name and are to end up behind everything else.           *)
(*                                                                         *)
(* A property is a record with a name, a number greater than zero; names   *)
(* are ordered as numbers.                                                 *)
(***************************************************************************)
EXTENDS Integers, Sequences, SequencesExt

NoName == 0
Hole == [name |-> NoName]

\* kdl_str_cmp
Compare(n1, n2) ==
    CASE n1 = NoName -> 1
      [] n1 # NoName /\ n2 = NoName -> -1
      [] OTHER -> n1 - n2

\* Which side the next property is taken from; "both" takes the right one and drops
\* the left one.
Side(left, l, right, r) ==
    CASE l > Len(left) -> "right"
      [] l <= Len(left) /\ r > Len(right) -> "left"
      [] OTHER -> LET c == Compare(left[l].name, right[r].name) IN
                  CASE c < 0 -> "left" [] c > 0 -> "right" [] OTHER -> "both"

\* Mutant of Chosen: of two properties with one name the earlier one stays.
ChosenFirst(side, ofLeft, ofRight) == IF side = "right" THEN ofRight ELSE ofLeft

Chosen(side, ofLeft, ofRight) == IF side = "left" THEN ofLeft ELSE ofRight

\* Insertion behind what is there, or over it if it has the same name.
Insert(out, item) ==
    IF out # <<>> /\ Compare(Last(out).name, item.name) = 0
    THEN Append(Front(out), item)
    ELSE Append(out, item)

\* overwriting_merge: where the loop stands and what it has put out, after one more turn.
MergeTurn(left, right, s) ==
    LET side == Side(left, s.l, right, s.r) IN
    IF s.l > Len(left) /\ s.r > Len(right) THEN s
    ELSE [l |-> IF side \in {"left", "both"} THEN s.l + 1 ELSE s.l,
          r |-> IF side \in {"right", "both"} THEN s.r + 1 ELSE s.r,
          out |-> Insert(s.out, Chosen(side, left[s.l], right[s.r]))]

Merging(left, right) ==
    LET turn[k \in 0..Len(left) + Len(right)] ==
            IF k = 0 THEN [l |-> 1, r |-> 1, out |-> <<>>]
            ELSE MergeTurn(left, right, turn[k - 1])
    IN turn

OverwritingMerge(left, right) == Merging(left, right)[Len(left) + Len(right)].out

\* Mutant of Padded: holes are left in front.
PaddedInFront(props, size) == [i \in 1..(size - Len(props)) |-> Hole] \o props

Padded(props, size) == props \o [i \in 1..(size - Len(props)) |-> Hole]

\* Two neighbouring windows of wnd properties each, behind the first i, merged.
Window(wnd, props, i) ==
    LET upTo(n) == IF n > Len(props) THEN Len(props) ELSE n
        r == upTo(i + wnd)
        e == upTo(i + 2 * wnd)
    IN Padded(OverwritingMerge(SubSeq(props, i + 1, r), SubSeq(props, r + 1, e)), e - i)

\* One pass of proplist_emit over the array: where it stands after each window.
NextWindow(wnd, props, s) ==
    IF s.i < Len(props) THEN [i |-> s.i + 2 * wnd, out |-> s.out \o Window(wnd, props, s.i)]
                        ELSE s

Windows(wnd, props) ==
    LET done[k \in 0..Len(props)] ==
            IF k = 0 THEN [i |-> 0, out |-> <<>>] ELSE NextWindow(wnd, props, done[k - 1])
    IN done

Pass(wnd, props) == Windows(wnd, props)[Len(props)].out

\* The width of the windows and the array, after each pass.
NextPass(props, s) ==
    IF s.wnd < Len(props) THEN [wnd |-> 2 * s.wnd, props |-> Pass(s.wnd, s.props)] ELSE s

Passes(props) ==
    LET pass[k \in 0..Len(props)] ==
            IF k = 0 THEN [wnd |-> 1, props |-> props] ELSE NextPass(props, pass[k - 1])
    IN pass

Sorted(props) == Passes(props)[Len(props)].props

\* What proplist_emit writes: its last loop leaves the holes out.
Keep(sorted, k, s) == IF sorted[k].name = NoName THEN s ELSE Append(s, sorted[k])

Kept(sorted) ==
    LET kept[k \in 0..Len(sorted)] == IF k = 0 THEN <<>> ELSE Keep(sorted, k, kept[k - 1])
    IN kept

Emission(props) == Kept(Sorted(props))[Len(Sorted(props))]

-----------------------------------------------------------------------------
\* "We need to emit the properties without duplicates, in lexical order"
\* (ckdl-cat.c:217): in order, each name once, with the value given last.
InOrderWithoutDuplicates(written, props) ==
    /\ \A i, j \in 1..Len(written) : i < j => written[i].name < written[j].name
    /\ \A i \in 1..Len(written) : \E k \in 1..Len(props) :
           /\ written[i] = props[k]
           /\ \A later \in k + 1..Len(props) : props[later].name # props[k].name
    /\ \A k \in 1..Len(props) : \E i \in 1..Len(written) : written[i].name = props[k].name

\* Holes are behind everything else.
HolesComeLast(props) ==
    \A i, j \in 1..Len(props) : i < j /\ props[i].name = NoName => props[j].name = NoName
==============================================================================
